---------------------------- MODULE Spec2Model ----------------------------
(***************************************************************************)
(* astro-sessionkit: the Configuration Store (core/config.ts), the route   *)
(* pattern matcher and validators (core/matcher.ts, lines 1-189) and the   *)
(* route guard middleware (core/matcher.ts, lines 190-283).                *)
(*                                                                         *)
(* Strings that the code reads character by character (patterns, paths,    *)
(* redirect targets) are sequences of one-character strings; names (roles, *)
(* permissions, hooks) are atoms.  A JavaScript undefined is Undefined     *)
(* where an atom is expected and Absent where a string or an array is;     *)
(* null is Null.                                                           *)
(***************************************************************************)
EXTENDS Integers, Sequences, FiniteSets, TLC

VARIABLES
  config,       \* the Configuration Store (config.ts 32)
  thrown,       \* what the last setConfig call threw
  req,          \* the guard invocation under way
  peer,         \* the guard invocation of another request served meanwhile
  frame,        \* the store of the execution context now running (als)
  running,      \* the request whose code is running, "none" between turns
  tasks,        \* the requests run inside runWithContext
  outsideSeen,  \* what getContextStore() returned outside every scope
  carrier,      \* the host's session store (context.session)
  sessionCall,  \* the last call of setSession / clearSession / updateSession
  mwRun,        \* the last run of sessionMiddleware
  probe         \* a call of matchesPattern or of a validator on its own

guardVars == <<config, thrown, req, peer>>
contextVars == <<frame, running, tasks, outsideSeen>>
sessionVars == <<carrier, sessionCall, mwRun>>
probeVars == <<probe>>
vars == <<config, thrown, req, peer, frame, running, tasks, outsideSeen,
          carrier, sessionCall, mwRun, probe>>

\* undefined and null where the value would be an atom (a role name, a hook)
Undefined == "undefined"
Null == "null"
\* undefined where the value would be a string of characters or an array
Absent == <<"#undefined">>

\* ------------------------------------------------------------------------
\* Bounds of the model
\* ------------------------------------------------------------------------

\* longest rule list a host configuration carries
MaxRules == 2

\* longest pattern, path and redirect target of which every string over the
\* alphabet is tried
MaxProbeLen == 6

\* ------------------------------------------------------------------------
\* Route pattern matching (core/matcher.ts 5-51)
\* ------------------------------------------------------------------------

\* characters "." does not match in a JavaScript regular expression
LineTerminators == {"\n", "\r"}

LitTok(c) == [t |-> "lit", c |-> c]
\* ".*"
AnyTok == [t |-> "any", c |-> ""]
\* "(?:/.*)?"
OptSubTok == [t |-> "optSub", c |-> ""]
\* "[^/]+(?:/[^/]+)*"
SegsTok == [t |-> "segs", c |-> ""]

\* escapeRegex: the escaped character matches itself and nothing else
escapeRegex(c) == LitTok(c)

\* regex.endsWith("/")
EndsWithSlash(regex) == Len(regex) > 0 /\ regex[Len(regex)] = LitTok("/")

RECURSIVE globLoop(_, _, _)
\* the while loop of globToRegex from position i (1-based) with the regex
\* built so far
globLoop(pattern, i, regex) ==
  IF i > Len(pattern) THEN regex
  ELSE
    LET char == pattern[i]
        next == IF i + 1 <= Len(pattern) THEN pattern[i + 1] ELSE Undefined
    IN IF char = "*" /\ next = "*"
       THEN LET isAtEnd == (i + 2 = Len(pattern) + 1)
                prevIsSlash == i > 1 /\ pattern[i - 1] = "/"
            IN IF isAtEnd /\ prevIsSlash
               THEN globLoop(pattern, i + 2,
                      Append(IF EndsWithSlash(regex)
                             THEN SubSeq(regex, 1, Len(regex) - 1)
                             ELSE regex, OptSubTok))
               ELSE globLoop(pattern, i + 2, Append(regex, AnyTok))
       ELSE IF char = "*"
       THEN globLoop(pattern, i + 1, Append(regex, SegsTok))
       ELSE globLoop(pattern, i + 1, Append(regex, escapeRegex(char)))

globToRegex(pattern) == globLoop(pattern, 1, <<>>)

\* path[a..b] is a word of ".*"
DotStar(path, a, b) == \A k \in a..b : path[k] \notin LineTerminators

\* path[a..b] is a word of "[^/]+": one non-empty segment
SegsWordSingle(path, a, b) ==
  /\ a <= b
  /\ \A k \in a..b : path[k] # "/"

\* path[a..b] is a word of "[^/]+(?:/[^/]+)*": non-empty segments joined by "/"
SegsWord(path, a, b) ==
  /\ a <= b
  /\ path[a] # "/"
  /\ path[b] # "/"
  /\ \A k \in a..(b - 1) : ~(path[k] = "/" /\ path[k + 1] = "/")

RECURSIVE regexMatch(_, _, _, _)
\* the tokens regex[k..] match exactly path[j..] (the regex is anchored by ^ and $)
regexMatch(regex, k, path, j) ==
  IF k > Len(regex) THEN j = Len(path) + 1
  ELSE LET tok == regex[k]
           n == Len(path)
       IN CASE tok.t = "lit" ->
                 j <= n /\ path[j] = tok.c /\ regexMatch(regex, k + 1, path, j + 1)
            [] tok.t = "any" ->
                 \E e \in j..(n + 1) :
                    DotStar(path, j, e - 1) /\ regexMatch(regex, k + 1, path, e)
            [] tok.t = "optSub" ->
                 \/ regexMatch(regex, k + 1, path, j)
                 \/ /\ j <= n
                    /\ path[j] = "/"
                    /\ \E e \in (j + 1)..(n + 1) :
                          DotStar(path, j + 1, e - 1) /\ regexMatch(regex, k + 1, path, e)
            [] tok.t = "segs" ->
                 \E e \in (j + 1)..(n + 1) :
                    SegsWord(path, j, e - 1) /\ regexMatch(regex, k + 1, path, e)

\* the regex without the closing $: a prefix of path matches
matchesPatternUnanchored(pattern, path) ==
  \E e \in 0..Len(path) : regexMatch(globToRegex(pattern), 1, SubSeq(path, 1, e), 1)

matchesPattern(pattern, path) == regexMatch(globToRegex(pattern), 1, path, 1)

\* ------------------------------------------------------------------------
\* Validators (core/matcher.ts 136-189)
\* ------------------------------------------------------------------------

MaxPatternLen == 1000
MaxRedirectLen == 500
MaxStarRun == 3

\* typeof x === 'string'
IsString(x) == x # Absent

\* the end (exclusive) of the run of "*" that starts at i
RECURSIVE starRunEnd(_, _)
starRunEnd(pattern, j) ==
  IF j <= Len(pattern) /\ pattern[j] = "*" THEN starRunEnd(pattern, j + 1) ELSE j

\* /\*{4,}/.test(pattern)
HasLongStarRun(pattern) ==
  \E i \in 1..Len(pattern) :
     /\ i + MaxStarRun <= Len(pattern)
     /\ \A k \in i..(i + MaxStarRun) : pattern[k] = "*"

RECURSIVE starRunsOk(_, _)
\* the for loop of isValidPattern from position i
starRunsOk(pattern, i) ==
  IF i > Len(pattern) THEN TRUE
  ELSE IF pattern[i] # "*" THEN starRunsOk(pattern, i + 1)
  ELSE LET j == starRunEnd(pattern, i)
           run == j - i
           next == IF j <= Len(pattern) THEN pattern[j] ELSE Undefined
       IN IF run < 1 \/ run > MaxStarRun THEN FALSE
          ELSE IF next # Undefined /\ next # "/" THEN FALSE
          ELSE starRunsOk(pattern, j)

\* isValidPattern without the checks of the runs of "*"
isValidPatternUnbounded(pattern) ==
  IF ~IsString(pattern) THEN FALSE
  ELSE IF Len(pattern) = 0 THEN FALSE
  ELSE IF Len(pattern) > MaxPatternLen THEN FALSE
  ELSE pattern[1] = "/"

isValidPattern(pattern) ==
  IF ~IsString(pattern) THEN FALSE
  ELSE IF Len(pattern) = 0 THEN FALSE
  ELSE IF Len(pattern) > MaxPatternLen THEN FALSE
  ELSE IF pattern[1] # "/" THEN FALSE
  ELSE IF HasLongStarRun(pattern) THEN FALSE
  ELSE starRunsOk(pattern, 1)

Letters == {"a", "b", "c", "d", "e", "f", "g", "h", "i", "j", "k", "l", "m",
            "n", "o", "p", "q", "r", "s", "t", "u", "v", "w", "x", "y", "z",
            "A", "B", "C", "D", "E", "F", "G", "H", "I", "J", "K", "L", "M",
            "N", "O", "P", "Q", "R", "S", "T", "U", "V", "W", "X", "Y", "Z"}
Digits == {"0", "1", "2", "3", "4", "5", "6", "7", "8", "9"}

\* /^[a-zA-Z][a-zA-Z0-9+.-]*:/.test(path)
LooksLikeScheme(path) ==
  /\ Len(path) >= 2
  /\ path[1] \in Letters
  /\ \E e \in 2..Len(path) :
        /\ path[e] = ":"
        /\ \A k \in 2..(e - 1) : path[k] \in Letters \cup Digits \cup {"+", ".", "-"}

\* isValidRedirectPath that lets "//host" through
isValidRedirectPathDoubleSlash(path) ==
  IF ~IsString(path) THEN FALSE
  ELSE IF Len(path) = 0 \/ Len(path) > MaxRedirectLen THEN FALSE
  ELSE IF path[1] # "/" THEN FALSE
  ELSE ~LooksLikeScheme(path)

isValidRedirectPath(path) ==
  IF ~IsString(path) THEN FALSE
  ELSE IF Len(path) = 0 \/ Len(path) > MaxRedirectLen THEN FALSE
  ELSE IF path[1] # "/" \/ (Len(path) >= 2 /\ path[2] = "/") THEN FALSE
  ELSE ~LooksLikeScheme(path)

\* ------------------------------------------------------------------------
\* Values the host supplies: rules, sessions, hooks (core/types.ts)
\* ------------------------------------------------------------------------

\* no session (null)
NoSession == [null |-> TRUE]
\* getContextStore() outside any context (undefined)
NoContext == [undefined |-> TRUE]
\* Array.prototype.find found nothing (undefined)
NoRule == [undefined |-> TRUE]

Session(userId, role, permissions, customRole, customPerms) ==
  [userId |-> userId, role |-> role, permissions |-> permissions,
   customRole |-> customRole, customPerms |-> customPerms]

Sessions ==
  { Session("u1", "admin", Absent, Undefined, Absent),
    Session("u2", "user", <<"read">>, "admin", <<"read", "write">>),
    Session("u3", Undefined, <<"write", "read", "audit">>, Undefined, Absent) }

\* what getContextStore() can return to the guard
ContextValues == {NoContext, [session |-> NoSession]} \cup {[session |-> s] : s \in Sessions}

Rule(pattern, redirectTo, role, roles, permission, permissions, allow) ==
  [pattern |-> pattern, redirectTo |-> redirectTo, role |-> role, roles |-> roles,
   permission |-> permission, permissions |-> permissions, allow |-> allow]

\* The rules a host lists.  Each is one variant of the ProtectionRule union
\* (types.ts 48-79) and so carries exactly one of role, roles, permission,
\* permissions, allow.  Patterns "/a/**", "/a/u", "/a/*", "/p", "/**";
\* redirectTo "/d".
RuleCatalog ==
  { Rule(<<"/", "a", "/", "*", "*">>, Absent, "admin", Absent, Undefined, Absent, Undefined),
    Rule(<<"/", "a", "/", "u">>, <<"/", "d">>, "user", Absent, Undefined, Absent, Undefined),
    Rule(<<"/", "a", "/", "*">>, Absent, Undefined, <<"admin", "editor">>, Undefined, Absent, Undefined),
    Rule(<<"/", "p">>, Absent, Undefined, Absent, "read", Absent, Undefined),
    Rule(<<"/", "*", "*">>, Absent, Undefined, Absent, Undefined, <<"read", "write">>, Undefined),
    Rule(<<"/", "p">>, <<"/", "d">>, Undefined, Absent, Undefined, <<>>, Undefined),
    Rule(<<"/", "a", "/", "*", "*">>, Absent, Undefined, Absent, Undefined, Absent, "allowFn") }

\* request paths: "/a", "/a/u", "/p", "/x"
Paths == { <<"/", "a">>, <<"/", "a", "/", "u">>, <<"/", "p">>, <<"/", "x">> }

RECURSIVE SeqsUpTo(_, _)
\* the lists of at most n different elements of S
SeqsUpTo(S, n) ==
  IF n = 0 THEN {<<>>}
  ELSE LET shorter == SeqsUpTo(S, n - 1)
       IN shorter \cup UNION { {Append(q, x) : x \in {y \in S : \A i \in 1..Len(q) : q[i] # y}} :
                                q \in shorter }

\* userConfig.protect: not given, or a list of rules
NoProtect == [absent |-> TRUE]
ProtectInputs == {NoProtect} \cup {[rules |-> q] : q \in SeqsUpTo(RuleCatalog, MaxRules)}

\* userConfig.access: not given, or hooks of which each may be missing
NoAccess == [absent |-> TRUE]

UserConfig(loginPath, protect, access, runWithContext, getContextStore, setContextStore) ==
  [loginPath |-> loginPath, protect |-> protect, access |-> access,
   runWithContext |-> runWithContext, getContextStore |-> getContextStore,
   setContextStore |-> setContextStore]

\* loginPath and access as the host gives them together
Settings ==
  { <<Absent, NoAccess>>,
    <<<<"/", "s">>, NoAccess>>,
    <<Absent, [getRole |-> "customGetRole", getPermissions |-> "customGetPermissions",
               check |-> Undefined]>>,
    <<<<"/", "s">>, [getRole |-> Undefined, getPermissions |-> Undefined,
                     check |-> "checkFn"]>> }

\* the last one has the loginPath "s", which is not site-relative
UserConfigs ==
  { UserConfig(s[1], p, s[2], Undefined, Undefined, Undefined) :
      s \in Settings, p \in ProtectInputs }
  \cup { UserConfig(<<"s">>, NoProtect, NoAccess, Undefined, Undefined, Undefined) }

\* the configuration a host installs later on, over the one in use:
\* loginPath "/s", one rule for "/**" and a check hook
ReconfigInputs ==
  { UserConfig(<<"/", "s">>,
               [rules |-> << Rule(<<"/", "*", "*">>, <<"/", "d">>, "user", Absent,
                                  Undefined, Absent, Undefined) >>],
               [getRole |-> Undefined, getPermissions |-> Undefined, check |-> "checkFn"],
               Undefined, Undefined, Undefined) }

\* What a host may hand to setConfig, valid or not.
\* loginPath: not given, "/s", "s", "", "//s"
StoreLoginPaths == {Absent, <<"/", "s">>, <<"s">>, <<>>, <<"/", "/", "s">>}

\* protect: not given, no rule, or rules of which some have the pattern "a"
\* (no leading slash), the redirectTo "d" (not site-relative) or the
\* redirectTo "" (empty); bare has none of role, roles, permission,
\* permissions, allow, and both has role and roles
StoreProtects ==
  LET good == Rule(<<"/", "a", "/", "*", "*">>, Absent, "admin", Absent, Undefined, Absent, Undefined)
      goodTo == Rule(<<"/", "p">>, <<"/", "d">>, Undefined, Absent, "read", Absent, Undefined)
      badPattern == Rule(<<"a">>, Absent, "admin", Absent, Undefined, Absent, Undefined)
      badTo == Rule(<<"/", "p">>, <<"d">>, "user", Absent, Undefined, Absent, Undefined)
      emptyTo == Rule(<<"/", "p">>, <<>>, "user", Absent, Undefined, Absent, Undefined)
      bare == Rule(<<"/", "p">>, Absent, Undefined, Absent, Undefined, Absent, Undefined)
      both == Rule(<<"/", "a", "/", "*", "*">>, Absent, "admin", <<"admin", "editor">>,
                   Undefined, Absent, Undefined)
  IN { NoProtect, [rules |-> <<>>], [rules |-> <<good>>], [rules |-> <<goodTo, good>>],
       [rules |-> <<badPattern>>], [rules |-> <<badTo>>], [rules |-> <<good, badPattern>>],
       [rules |-> <<goodTo, badTo>>], [rules |-> <<emptyTo>>],
       [rules |-> <<bare>>], [rules |-> <<good, both>>] }

\* {pattern: "/p"}: a rule with none of role, roles, permission,
\* permissions, allow, and {pattern: "/p", role: "user", redirectTo: ""}
BareRule == Rule(<<"/", "p">>, Absent, Undefined, Absent, Undefined, Absent, Undefined)
EmptyRedirectRule == Rule(<<"/", "p">>, <<>>, "user", Absent, Undefined, Absent, Undefined)

\* what the host of a guarded site hands to setConfig, valid or not: the
\* loginPath not given, "/s" or "s" with every rule list of StoreProtects,
\* and the two rules above under a check hook
GuardStoreInputs ==
  { UserConfig(l, p, NoAccess, Undefined, Undefined, Undefined) :
      l \in {Absent, <<"/", "s">>, <<"s">>}, p \in StoreProtects }
  \cup
  { UserConfig(Absent, [rules |-> << r >>],
               [getRole |-> Undefined, getPermissions |-> Undefined, check |-> "checkFn"],
               Undefined, Undefined, Undefined) : r \in {BareRule, EmptyRedirectRule} }

\* runWithContext, getContextStore, setContextStore: given or not
StoreContextHooks ==
  { <<r, g, t>> : r \in {Undefined, "customRunner"}, g \in {Undefined, "customGetter"},
                  t \in {Undefined, "customSetter"} }

\* every loginPath with every rule list, and every choice of context
\* functions with and without access hooks
StoreInputs ==
  { UserConfig(l, p, NoAccess, Undefined, Undefined, Undefined) :
      l \in StoreLoginPaths, p \in StoreProtects }
  \cup
  { UserConfig(l, NoProtect, a, h[1], h[2], h[3]) :
      l \in {Absent, <<"/", "s">>},
      a \in {NoAccess,
             [getRole |-> "customGetRole", getPermissions |-> Undefined, check |-> "checkFn"],
             [getRole |-> Undefined, getPermissions |-> "customGetPermissions",
              check |-> Undefined]},
      h \in StoreContextHooks }
  \cup
  { UserConfig(Absent, [rules |-> << r >>], NoAccess, Undefined, "customGetter", Undefined) :
      r \in { Rule(<<"/", "p">>, <<>>, "user", Absent, Undefined, Absent, Undefined),
              Rule(<<"a">>, Absent, "admin", Absent, Undefined, Absent, Undefined) } }

\* access.getRole
ApplyGetRole(hook, session) ==
  CASE hook = "defaultGetRole" ->
         \* session?.role ?? null
         IF session = NoSession THEN Null
         ELSE IF session.role \in {Undefined, Null} THEN Null ELSE session.role
    [] hook = "customGetRole" ->
         \* (session) => session?.customRole ?? "admin"
         IF session = NoSession THEN "admin"
         ELSE IF session.customRole \in {Undefined, Null} THEN "admin" ELSE session.customRole

\* access.getPermissions
ApplyGetPermissions(hook, session) ==
  CASE hook = "defaultGetPermissions" ->
         \* session?.permissions ?? []
         IF session = NoSession THEN <<>>
         ELSE IF session.permissions = Absent THEN <<>> ELSE session.permissions
    [] hook = "customGetPermissions" ->
         \* (session) => session?.customPerms ?? ["read", "write"]
         IF session = NoSession THEN <<"read", "write">>
         ELSE IF session.customPerms = Absent THEN <<"read", "write">> ELSE session.customPerms

\* what a check hook or an allow predicate does when it is called: it returns
\* a boolean or a promise of one (async), or it throws / its promise rejects
HookReturn(value, threw, async) == [value |-> value, threw |-> threw, async |-> async]
HookReturns == {HookReturn(v, t, a) : v \in BOOLEAN, t \in {FALSE}, a \in BOOLEAN}
                 \cup {HookReturn(FALSE, TRUE, a) : a \in BOOLEAN}
NoReturn == [none |-> TRUE]

\* what the downstream handler next() returns
NextResults == {"page", "notFound"}

\* ------------------------------------------------------------------------
\* Configuration Store (core/config.ts)
\* ------------------------------------------------------------------------

DEFAULT_CONFIG ==
  [loginPath |-> <<"/", "l", "o", "g", "i", "n">>,
   protect |-> <<>>,
   access |-> [getRole |-> "defaultGetRole",
               getPermissions |-> "defaultGetPermissions",
               check |-> Undefined],
   runWithContext |-> Undefined,
   getContextStore |-> Undefined,
   setContextStore |-> Undefined]

\* a ?? b for atoms
Coalesce(a, b) == IF a \in {Undefined, Null} THEN b ELSE a

\* rule.redirectTo && ...: a non-empty string is truthy
Truthy(str) == str # Absent /\ Len(str) > 0

\* rule i of userConfig.protect fails the checks of lines 55-68
ruleRejected(userConfig, i) ==
  \/ ~isValidPattern(userConfig.protect.rules[i].pattern)
  \/ /\ Truthy(userConfig.protect.rules[i].redirectTo)
     /\ ~isValidRedirectPath(userConfig.protect.rules[i].redirectTo)

\* setConfig without the check of loginPath of lines 42-48
setConfigErrorLoginPathUnchecked(userConfig) ==
  IF /\ userConfig.protect # NoProtect
     /\ \E i \in 1..Len(userConfig.protect.rules) : ruleRejected(userConfig, i)
  THEN LET first == CHOOSE i \in 1..Len(userConfig.protect.rules) :
                      /\ ruleRejected(userConfig, i)
                      /\ \A k \in 1..(i - 1) : ~ruleRejected(userConfig, k)
       IN IF ~isValidPattern(userConfig.protect.rules[first].pattern)
          THEN "pattern" ELSE "redirectTo"
  ELSE IF (userConfig.getContextStore # Undefined /\ userConfig.setContextStore = Undefined)
          \/ (userConfig.getContextStore = Undefined /\ userConfig.setContextStore # Undefined)
  THEN "contextStore"
  ELSE "none"

\* setConfig without the check of lines 73-78
setConfigErrorNoPair(userConfig) ==
  IF userConfig.loginPath # Absent /\ ~isValidRedirectPath(userConfig.loginPath)
  THEN "loginPath"
  ELSE IF /\ userConfig.protect # NoProtect
          /\ \E i \in 1..Len(userConfig.protect.rules) : ruleRejected(userConfig, i)
  THEN LET first == CHOOSE i \in 1..Len(userConfig.protect.rules) :
                      /\ ruleRejected(userConfig, i)
                      /\ \A k \in 1..(i - 1) : ~ruleRejected(userConfig, k)
       IN IF ~isValidPattern(userConfig.protect.rules[first].pattern)
          THEN "pattern" ELSE "redirectTo"
  ELSE "none"

\* setConfig that pairs runWithContext with getContextStore
setConfigErrorRunnerPair(userConfig) ==
  IF setConfigErrorNoPair(userConfig) # "none" THEN setConfigErrorNoPair(userConfig)
  ELSE IF (userConfig.runWithContext # Undefined /\ userConfig.getContextStore = Undefined)
          \/ (userConfig.runWithContext = Undefined /\ userConfig.getContextStore # Undefined)
  THEN "contextStore"
  ELSE "none"

\* setConfig that also throws for a rule that does not carry exactly one of
\* role, roles, permission, permissions, allow
setConfigErrorOneDiscriminant(userConfig) ==
  IF setConfigErrorNoPair(userConfig) # "none" THEN setConfigErrorNoPair(userConfig)
  ELSE IF /\ userConfig.protect # NoProtect
          /\ \E i \in 1..Len(userConfig.protect.rules) :
                LET rule == userConfig.protect.rules[i]
                IN Cardinality({d \in {"role", "permission", "allow"} : rule[d] # Undefined}
                               \cup {d \in {"roles", "permissions"} : rule[d] # Absent}) # 1
  THEN "discriminant"
  ELSE IF (userConfig.getContextStore # Undefined /\ userConfig.setContextStore = Undefined)
          \/ (userConfig.getContextStore = Undefined /\ userConfig.setContextStore # Undefined)
  THEN "contextStore"
  ELSE "none"

\* the field whose validation throws, "none" if setConfig accepts userConfig
setConfigError(userConfig) ==
  IF userConfig.loginPath # Absent /\ ~isValidRedirectPath(userConfig.loginPath)
  THEN "loginPath"
  ELSE IF /\ userConfig.protect # NoProtect
          /\ \E i \in 1..Len(userConfig.protect.rules) :
                ~isValidPattern(userConfig.protect.rules[i].pattern)
                \/ (Truthy(userConfig.protect.rules[i].redirectTo)
                    /\ ~isValidRedirectPath(userConfig.protect.rules[i].redirectTo))
  THEN LET first == CHOOSE i \in 1..Len(userConfig.protect.rules) :
                      /\ ~isValidPattern(userConfig.protect.rules[i].pattern)
                         \/ (Truthy(userConfig.protect.rules[i].redirectTo)
                             /\ ~isValidRedirectPath(userConfig.protect.rules[i].redirectTo))
                      /\ \A k \in 1..(i - 1) :
                            /\ isValidPattern(userConfig.protect.rules[k].pattern)
                            /\ ~(Truthy(userConfig.protect.rules[k].redirectTo)
                                 /\ ~isValidRedirectPath(userConfig.protect.rules[k].redirectTo))
       IN IF ~isValidPattern(userConfig.protect.rules[first].pattern)
          THEN "pattern" ELSE "redirectTo"
  ELSE IF (userConfig.getContextStore # Undefined /\ userConfig.setContextStore = Undefined)
          \/ (userConfig.getContextStore = Undefined /\ userConfig.setContextStore # Undefined)
  THEN "contextStore"
  ELSE "none"

\* setConfig that starts from the stored configuration ({...config}) and not
\* from the defaults
resolveConfigOverPrevious(userConfig) ==
  [loginPath |-> IF userConfig.loginPath # Absent
                 THEN userConfig.loginPath ELSE config.loginPath,
   protect |-> IF userConfig.protect # NoProtect
               THEN userConfig.protect.rules ELSE config.protect,
   access |-> IF userConfig.access # NoAccess
              THEN [getRole |-> Coalesce(userConfig.access.getRole,
                                         DEFAULT_CONFIG.access.getRole),
                    getPermissions |-> Coalesce(userConfig.access.getPermissions,
                                                DEFAULT_CONFIG.access.getPermissions),
                    check |-> userConfig.access.check]
              ELSE config.access,
   runWithContext |-> userConfig.runWithContext,
   getContextStore |-> userConfig.getContextStore,
   setContextStore |-> userConfig.setContextStore]

\* the configuration setConfig stores when it accepts userConfig
resolveConfig(userConfig) ==
  [loginPath |-> IF userConfig.loginPath # Absent
                 THEN userConfig.loginPath ELSE DEFAULT_CONFIG.loginPath,
   protect |-> IF userConfig.protect # NoProtect
               THEN userConfig.protect.rules ELSE DEFAULT_CONFIG.protect,
   access |-> IF userConfig.access # NoAccess
              THEN [getRole |-> Coalesce(userConfig.access.getRole,
                                         DEFAULT_CONFIG.access.getRole),
                    getPermissions |-> Coalesce(userConfig.access.getPermissions,
                                                DEFAULT_CONFIG.access.getPermissions),
                    check |-> userConfig.access.check]
              ELSE DEFAULT_CONFIG.access,
   runWithContext |-> userConfig.runWithContext,
   getContextStore |-> userConfig.getContextStore,
   setContextStore |-> userConfig.setContextStore]

\* getConfig()
getConfig == config

\* ------------------------------------------------------------------------
\* Route guard middleware (core/matcher.ts 203-283)
\* ------------------------------------------------------------------------

\* array.includes(x)
Includes(array, x) == \E i \in 1..Len(array) : array[i] = x

\* a role rule that admits every session that has some role
roleAllowsAnyRole(access, rule, session) ==
  LET userRole == ApplyGetRole(access.getRole, session)
  IN userRole # Null

\* lines 222-225: userRole === rule.role
roleAllows(access, rule, session) ==
  LET userRole == ApplyGetRole(access.getRole, session)
  IN userRole = rule.role

\* roles checked with || in place of &&
rolesAllowsOr(access, rule, session) ==
  LET userRole == ApplyGetRole(access.getRole, session)
  IN userRole # Null \/ Includes(rule.roles, userRole)

\* lines 228-231: userRole !== null && rule.roles.includes(userRole)
rolesAllows(access, rule, session) ==
  LET userRole == ApplyGetRole(access.getRole, session)
  IN userRole # Null /\ Includes(rule.roles, userRole)

\* permission compared with the first permission of the user only
permissionAllowsFirst(access, rule, session) ==
  LET userPermissions == ApplyGetPermissions(access.getPermissions, session)
  IN Len(userPermissions) > 0 /\ userPermissions[1] = rule.permission

\* lines 234-237: userPermissions.includes(rule.permission)
permissionAllows(access, rule, session) ==
  LET userPermissions == ApplyGetPermissions(access.getPermissions, session)
  IN Includes(userPermissions, rule.permission)

\* permissions checked with some() in place of every()
permissionsAllowsSome(access, rule, session) ==
  LET userPermissions == ApplyGetPermissions(access.getPermissions, session)
  IN \E i \in 1..Len(rule.permissions) : Includes(userPermissions, rule.permissions[i])

\* lines 240-243: rule.permissions.every((p) => userPermissions.includes(p))
permissionsAllows(access, rule, session) ==
  LET userPermissions == ApplyGetPermissions(access.getPermissions, session)
  IN \A i \in 1..Len(rule.permissions) : Includes(userPermissions, rule.permissions[i])

\* checkRule with the test of a missing session ahead of the check hook
checkRuleSessionFirst(access, rule, session) ==
  IF session = NoSession
  THEN [call |-> "none", allowed |-> FALSE]
  ELSE IF access.check # Undefined
  THEN [call |-> "check", allowed |-> FALSE]
  ELSE IF rule.allow # Undefined
  THEN [call |-> "allow", allowed |-> FALSE]
  ELSE IF rule.role # Undefined
  THEN [call |-> "getRole", allowed |-> roleAllows(access, rule, session)]
  ELSE IF rule.roles # Absent
  THEN [call |-> "getRole", allowed |-> rolesAllows(access, rule, session)]
  ELSE IF rule.permission # Undefined
  THEN [call |-> "getPermissions", allowed |-> permissionAllows(access, rule, session)]
  ELSE IF rule.permissions # Absent
  THEN [call |-> "getPermissions", allowed |-> permissionsAllows(access, rule, session)]
  ELSE [call |-> "none", allowed |-> TRUE]

\* checkRule without the test of a missing session
checkRuleNoSessionTest(access, rule, session) ==
  IF access.check # Undefined
  THEN [call |-> "check", allowed |-> FALSE]
  ELSE IF rule.allow # Undefined
  THEN [call |-> "allow", allowed |-> FALSE]
  ELSE IF rule.role # Undefined
  THEN [call |-> "getRole", allowed |-> roleAllows(access, rule, session)]
  ELSE IF rule.roles # Absent
  THEN [call |-> "getRole", allowed |-> rolesAllows(access, rule, session)]
  ELSE IF rule.permission # Undefined
  THEN [call |-> "getPermissions", allowed |-> permissionAllows(access, rule, session)]
  ELSE IF rule.permissions # Absent
  THEN [call |-> "getPermissions", allowed |-> permissionsAllows(access, rule, session)]
  ELSE [call |-> "none", allowed |-> TRUE]

\* checkRule that denies when the rule has no recognized variant
checkRuleDenyByDefault(access, rule, session) ==
  IF access.check # Undefined
  THEN [call |-> "check", allowed |-> FALSE]
  ELSE IF rule.allow # Undefined
  THEN [call |-> "allow", allowed |-> FALSE]
  ELSE IF session = NoSession
  THEN [call |-> "none", allowed |-> FALSE]
  ELSE IF rule.role # Undefined
  THEN [call |-> "getRole", allowed |-> roleAllows(access, rule, session)]
  ELSE IF rule.roles # Absent
  THEN [call |-> "getRole", allowed |-> rolesAllows(access, rule, session)]
  ELSE IF rule.permission # Undefined
  THEN [call |-> "getPermissions", allowed |-> permissionAllows(access, rule, session)]
  ELSE IF rule.permissions # Absent
  THEN [call |-> "getPermissions", allowed |-> permissionsAllows(access, rule, session)]
  ELSE [call |-> "none", allowed |-> FALSE]

\* lines 206-246, the synchronous part of checkRule: the hook it calls
\* (call), and its verdict when no user predicate has to be awaited (allowed)
checkRuleWith(access, rule, session) ==
  IF access.check # Undefined
  THEN [call |-> "check", allowed |-> FALSE]
  ELSE IF rule.allow # Undefined
  THEN [call |-> "allow", allowed |-> FALSE]
  ELSE IF session = NoSession
  THEN [call |-> "none", allowed |-> FALSE]
  ELSE IF rule.role # Undefined
  THEN [call |-> "getRole", allowed |-> roleAllows(access, rule, session)]
  ELSE IF rule.roles # Absent
  THEN [call |-> "getRole", allowed |-> rolesAllows(access, rule, session)]
  ELSE IF rule.permission # Undefined
  THEN [call |-> "getPermissions", allowed |-> permissionAllows(access, rule, session)]
  ELSE IF rule.permissions # Absent
  THEN [call |-> "getPermissions", allowed |-> permissionsAllows(access, rule, session)]
  ELSE [call |-> "none", allowed |-> TRUE]

\* line 204: checkRule reads the access hooks of the current configuration
checkRule(rule, session) == checkRuleWith(getConfig.access, rule, session)

RECURSIVE findFromLast(_, _, _)
\* a scan that keeps the last rule that matches
findFromLast(protect, pathname, i) ==
  IF i > Len(protect) THEN 0
  ELSE LET later == findFromLast(protect, pathname, i + 1)
       IN IF later # 0 THEN later
          ELSE IF matchesPattern(protect[i].pattern, pathname) THEN i ELSE 0

RECURSIVE findFromOrLast(_, _, _)
\* a scan that falls back to the last rule when none matches
findFromOrLast(protect, pathname, i) ==
  IF i > Len(protect) THEN Len(protect)
  ELSE IF matchesPattern(protect[i].pattern, pathname) THEN i
  ELSE findFromOrLast(protect, pathname, i + 1)

RECURSIVE findFrom(_, _, _)
\* protect.find((r) => matchesPattern(r.pattern, pathname)) scanning from
\* index i: the index of the rule found, 0 when none is
findFrom(protect, pathname, i) ==
  IF i > Len(protect) THEN 0
  ELSE IF matchesPattern(protect[i].pattern, pathname) THEN i
  ELSE findFrom(protect, pathname, i + 1)

\* a redirect that ignores the rule's own target
redirectTargetGlobal(rule, loginPath) == loginPath

\* rule.redirectTo ?? loginPath
redirectTarget(rule, loginPath) ==
  IF rule.redirectTo # Absent THEN rule.redirectTo ELSE loginPath

\* One guard invocation.  pc: idle (not called), pending (suspended on the
\* promise of check/allow), resolved (checkRule has its verdict, the guard's
\* continuation has not run yet), done (the guard returned).
\*   path, session   the request: its pathname and the propagated session
\*   protect, loginPath   the locals read from getConfig() at line 254
\*   access          the local read from getConfig() at line 204
\*   rule, ruleIdx   the rule found and its index in protect (NoRule, 0)
\*   tested          how many times find called matchesPattern
\*   call, callRule, callSession   the hook checkRule called, with its arguments
\*   ret             what the check hook / allow predicate returns
\*   settled         the value or promise it returned has settled
\*   allowed         the value of checkRule once it has one
\*   outcome         none, next (downstream handler invoked), redirect, error
\*   location        the redirect target
\*   nextCalls       how many times next() was invoked
\*   nextValue       what next() returned
\*   result          what the guard returned
IdleRequest ==
  [pc |-> "idle", path |-> <<>>, session |-> NoSession, protect |-> <<>>,
   loginPath |-> Absent, access |-> NoAccess, rule |-> NoRule,
   ruleIdx |-> 0, tested |-> 0, call |-> "none",
   callRule |-> NoRule, callSession |-> NoSession, ret |-> NoReturn, settled |-> FALSE,
   allowed |-> FALSE, outcome |-> "none", location |-> Absent,
   nextCalls |-> 0, nextValue |-> Undefined, result |-> Undefined]

\* next() called, its result not returned
AdmittedResultLost(r, nextResult) ==
  [r EXCEPT !.pc = "done", !.outcome = "next", !.nextCalls = r.nextCalls + 1,
            !.nextValue = nextResult, !.result = Undefined]

\* return next()
Admitted(r, nextResult) ==
  [r EXCEPT !.pc = "done", !.outcome = "next", !.nextCalls = r.nextCalls + 1,
            !.nextValue = nextResult, !.result = nextResult]

\* loginPath read from getConfig() again when the redirect is issued
RedirectedLate(r) ==
  [r EXCEPT !.pc = "done", !.outcome = "redirect",
            !.location = redirectTarget(r.rule, getConfig.loginPath),
            !.result = "redirect"]

\* return context.redirect(redirectTo)
Redirected(r) ==
  [r EXCEPT !.pc = "done", !.outcome = "redirect",
            !.location = redirectTarget(r.rule, r.loginPath),
            !.result = "redirect"]

\* the hook's return value used without await: a promise is truthy
AwaitHookNotAwaited(r, ret) ==
  [r EXCEPT !.ret = ret,
            !.pc = "resolved",
            !.settled = ~ret.async,
            !.allowed = IF ret.threw /\ ~ret.async THEN FALSE
                        ELSE IF ret.async THEN TRUE ELSE ret.value]

\* await Promise.resolve(hook(...)) in checkRule followed by the guard's
\* await: a promise suspends the decision until it settles, a plain value
\* is the value of checkRule
AwaitHook(r, ret) ==
  [r EXCEPT !.ret = ret,
            !.pc = IF ret.async THEN "pending" ELSE "resolved",
            !.settled = ~ret.async,
            !.allowed = IF ret.async \/ ret.threw THEN FALSE ELSE ret.value]

\* lines 253-274, up to the first suspension: the guard is called for a
\* request to pathname whose propagated context is ctx
GuardStarted(pathname, ctx) ==
  LET protect == getConfig.protect
      loginPath == getConfig.loginPath
      session == IF ctx = NoContext THEN NoSession ELSE ctx.session
      this == [IdleRequest EXCEPT !.path = pathname, !.session = session,
                                  !.protect = protect, !.loginPath = loginPath]
  IN IF Len(protect) = 0
     THEN {Admitted(this, nextResult) : nextResult \in NextResults}
     ELSE LET idx == findFrom(protect, pathname, 1)
              found == [this EXCEPT !.tested = IF idx = 0 THEN Len(protect) ELSE idx,
                                    !.ruleIdx = idx]
          IN IF idx = 0
             THEN {Admitted(found, nextResult) : nextResult \in NextResults}
             ELSE LET rule == protect[idx]
                      cr == checkRule(rule, session)
                      called == [found EXCEPT !.rule = rule, !.call = cr.call,
                                    !.access = getConfig.access,
                                    !.callRule = IF cr.call = "check" THEN rule ELSE NoRule,
                                    !.callSession = IF cr.call = "none" THEN NoSession
                                                    ELSE session]
                  IN IF cr.call \in {"check", "allow"}
                     THEN {AwaitHook(called, ret) : ret \in HookReturns}
                     ELSE {[called EXCEPT !.pc = "resolved", !.allowed = cr.allowed]}

\* a continuation that is never scheduled: the promise has settled and the
\* decision stays suspended
SettledNotResumed(r) == [r EXCEPT !.settled = TRUE]

\* line 208 / 213: the promise returned by check / allow has settled and
\* checkRule resumes with its value, or with its rejection
Settled(r) ==
  [r EXCEPT !.pc = "resolved", !.settled = TRUE,
            !.allowed = IF r.ret.threw THEN FALSE ELSE r.ret.value]

\* a guard that takes a failed predicate for a denial
GuardResumedFailClosed(r, nextResult) ==
  IF ~r.allowed THEN Redirected(r) ELSE Admitted(r, nextResult)

\* lines 274-281: the guard resumes with the value of checkRule; an
\* exception of checkRule leaves the guard at line 274
GuardResumed(r, nextResult) ==
  IF r.ret # NoReturn /\ r.ret.threw
  THEN [r EXCEPT !.pc = "done", !.outcome = "error", !.result = "throws"]
  ELSE IF ~r.allowed
  THEN Redirected(r)
  ELSE Admitted(r, nextResult)

\* the guard is called for a request to pathname
GuardStart(pathname, ctx) ==
  /\ req.pc = "idle"
  /\ req' \in GuardStarted(pathname, ctx)
  /\ UNCHANGED <<config, thrown, peer, contextVars, sessionVars, probeVars>>

\* the promise returned by check / allow settles: line 208 / 213 resumes
HookSettles ==
  /\ req.pc = "pending"
  /\ req' = Settled(req)
  /\ UNCHANGED <<config, thrown, peer, contextVars, sessionVars, probeVars>>

\* lines 274-281: the guard resumes with the value of checkRule
GuardResume(nextResult) ==
  /\ req.pc = "resolved"
  /\ req' = GuardResumed(req, nextResult)
  /\ UNCHANGED <<config, thrown, peer, contextVars, sessionVars, probeVars>>

\* the guard's caller has the result; the next request comes in
Return ==
  /\ req.pc = "done"
  /\ req' = IdleRequest
  /\ UNCHANGED <<config, thrown, peer, contextVars, sessionVars, probeVars>>

\* The same four steps of the guard invocation of another request, which
\* the server takes up while the first is under way: each invocation of the
\* handler of line 253 has its own locals
PeerStart(pathname, ctx) ==
  /\ peer.pc = "idle"
  /\ peer' \in GuardStarted(pathname, ctx)
  /\ UNCHANGED <<config, thrown, req, contextVars, sessionVars, probeVars>>

PeerSettles ==
  /\ peer.pc = "pending"
  /\ peer' = Settled(peer)
  /\ UNCHANGED <<config, thrown, req, contextVars, sessionVars, probeVars>>

PeerResume(nextResult) ==
  /\ peer.pc = "resolved"
  /\ peer' = GuardResumed(peer, nextResult)
  /\ UNCHANGED <<config, thrown, req, contextVars, sessionVars, probeVars>>

PeerReturn ==
  /\ peer.pc = "done"
  /\ peer' = IdleRequest
  /\ UNCHANGED <<config, thrown, req, contextVars, sessionVars, probeVars>>

\* setConfig(userConfig): validates, then replaces the configuration; a
\* call that throws leaves it as it was.  thrown is what the call threw: the
\* field its error message names, "none" when it returned
SetConfig(userConfig) ==
  /\ config' = IF setConfigError(userConfig) = "none"
               THEN resolveConfig(userConfig) ELSE config
  /\ thrown' = setConfigError(userConfig)
  /\ UNCHANGED <<req, peer, contextVars, sessionVars, probeVars>>

\* the integration calls setConfig at startup: the store holds the defaults
\* and no request is being served
Configure(userConfig) ==
  /\ config = DEFAULT_CONFIG
  /\ req.pc = "idle"
  /\ peer.pc = "idle"
  /\ SetConfig(userConfig)

\* the host calls setConfig again, at any time, also while a guard
\* invocation is under way
Reconfigure(userConfig) == SetConfig(userConfig)

\* ------------------------------------------------------------------------
\* Specification
\* ------------------------------------------------------------------------

\* ------------------------------------------------------------------------
\* Scoped context (core/context.ts with runWithContext / getContextStore)
\* ------------------------------------------------------------------------

\* two requests served concurrently
TaskIds == {"A", "B"}

\* the contexts sessionMiddleware runs a request with
RunContexts == {[session |-> NoSession]} \cup {[session |-> s] : s \in Sessions}

\* what a host's custom getContextStore returns: undefined or a context
HostContexts == {NoContext, [session |-> Session("u1", "admin", Absent, Undefined, Absent)]}

\* a request: not started; context is the one it is run with, captured the
\* store its suspended continuation carries, seen what its calls of
\* getContextStore() returned
NewTask == [pc |-> "new", context |-> NoContext, captured |-> NoContext, seen |-> {}]

\* fn called without als.run: the store of the caller stays in effect
runWithContextNoStore(context, outer) == outer

\* als.run(context, fn): context is the store in effect while fn runs
runWithContext(context, outer) == context

\* getContextStore(): the values a call can return, that of the custom
\* getter when one is configured, else als.getStore()
getContextStore ==
  IF getConfig.getContextStore # Undefined THEN HostContexts ELSE {frame}

\* one result of getContextStore(), with whether the custom getter gave it
Observed(value) == [value |-> value, custom |-> getConfig.getContextStore # Undefined]

\* runWithContext(context, fn) called from the top level: fn starts
ContextRun(t, context) ==
  /\ running = "none"
  /\ tasks[t].pc = "new"
  /\ frame' = runWithContext(context, frame)
  /\ running' = t
  /\ tasks' = [tasks EXCEPT ![t] = [NewTask EXCEPT !.pc = "body", !.context = context]]
  /\ UNCHANGED <<outsideSeen, guardVars, sessionVars, probeVars>>

\* the running request calls getContextStore()
ContextCall(t) ==
  /\ running = t
  /\ \E value \in getContextStore :
        tasks' = [tasks EXCEPT ![t].seen = @ \cup {Observed(value)}]
  /\ UNCHANGED <<frame, running, outsideSeen, guardVars, sessionVars, probeVars>>

\* the running request awaits: its continuation carries the store in
\* effect, and control returns to the top level
ContextSuspend(t) ==
  /\ running = t
  /\ tasks' = [tasks EXCEPT ![t].pc = "suspended", ![t].captured = frame]
  /\ frame' = NoContext
  /\ running' = "none"
  /\ UNCHANGED <<outsideSeen, guardVars, sessionVars, probeVars>>

\* a suspended continuation is resumed with the store it carries
ContextResume(t) ==
  /\ running = "none"
  /\ tasks[t].pc = "suspended"
  /\ frame' = tasks[t].captured
  /\ running' = t
  /\ tasks' = [tasks EXCEPT ![t].pc = "body"]
  /\ UNCHANGED <<outsideSeen, guardVars, sessionVars, probeVars>>

\* fn returns
ContextReturn(t) ==
  /\ running = t
  /\ tasks' = [tasks EXCEPT ![t].pc = "done"]
  /\ frame' = NoContext
  /\ running' = "none"
  /\ UNCHANGED <<outsideSeen, guardVars, sessionVars, probeVars>>

\* getContextStore() called at the top level, outside every runWithContext
ContextOutside ==
  /\ running = "none"
  /\ \E value \in getContextStore : outsideSeen' = outsideSeen \cup {Observed(value)}
  /\ UNCHANGED <<frame, running, tasks, guardVars, sessionVars, probeVars>>

\* the configurations the host switches between: the defaults, and a custom
\* getContextStore / setContextStore pair
ContextConfigInputs ==
  { UserConfig(Absent, NoProtect, NoAccess, Undefined, Undefined, Undefined),
    UserConfig(Absent, NoProtect, NoAccess, Undefined, "customGetter", "customSetter") }

\* ------------------------------------------------------------------------
\* Session store API (server.ts) and sessionMiddleware
\* ------------------------------------------------------------------------

\* Values a host can store or pass as a session.  Each carries its typeof
\* in t.  A string is its text s, its length len and the length trim of
\* s.trim(); an array is a sequence of runs of count equal items; an object
\* has the fields of SessionFields, Missing where it has no such property.
VUndefined == [t |-> "undefined"]
VNull == [t |-> "null"]
Missing == [t |-> "missing"]
VNumber(n) == [t |-> "number", n |-> n]
VString(s, len) == [t |-> "string", s |-> s, len |-> len, trim |-> len]
VBlank(len) == [t |-> "string", s |-> " ", len |-> len, trim |-> 0]
VArray(runs) == [t |-> "array", runs |-> runs]
Run(item, count) == [item |-> item, count |-> count]

SessionFields == {"userId", "email", "role", "roles", "permissions", "customField"}

VObject(userId, email, role, roles, permissions, customField) ==
  [t |-> "object", userId |-> userId, email |-> email, role |-> role, roles |-> roles,
   permissions |-> permissions, customField |-> customField]

\* value.field: undefined for a property the object does not have, and for
\* every property of an array
Get(value, field) ==
  IF value.t = "object" /\ value[field] # Missing THEN value[field] ELSE VUndefined

\* !value
Falsy(value) ==
  \/ value.t \in {"undefined", "null"}
  \/ value.t = "number" /\ value.n = 0
  \/ value.t = "string" /\ value.len = 0
  \/ value.t = "boolean" /\ ~value.b

RECURSIVE RunsLength(_)
\* array.length
RunsLength(runs) ==
  IF runs = <<>> THEN 0 ELSE runs[1].count + RunsLength(Tail(runs))

\* array.every(item => typeof item === 'string' && item.length <= limit)
EveryStringUpTo(array, limit) ==
  \A i \in 1..Len(array.runs) :
     array.runs[i].count > 0 =>
       array.runs[i].item.t = "string" /\ array.runs[i].item.len <= limit

MaxUserIdLen == 255
MaxEmailLen == 320
MaxRoleLen == 100
MaxRolesCount == 100
MaxRoleItemLen == 100
MaxPermissionsCount == 500
MaxPermissionItemLen == 200

\* isValidSessionStructure with every limit exclusive (>= in place of >)
isValidSessionStructureExclusive(input) ==
  LET userId == Get(input, "userId")
      email == Get(input, "email")
      role == Get(input, "role")
      roles == Get(input, "roles")
      permissions == Get(input, "permissions")
  IN /\ ~Falsy(input)
     /\ input.t \in {"object", "array"}
     /\ userId.t = "string"
     /\ userId.trim > 0
     /\ userId.len < MaxUserIdLen
     /\ email.t # "undefined" => (email.t = "string" /\ email.len < MaxEmailLen)
     /\ role.t \notin {"undefined", "null"} =>
           (role.t = "string" /\ role.len < MaxRoleLen)
     /\ roles.t \notin {"undefined", "null"} =>
           /\ roles.t = "array"
           /\ RunsLength(roles.runs) < MaxRolesCount
           /\ EveryStringUpTo(roles, MaxRoleItemLen - 1)
     /\ permissions.t \notin {"undefined", "null"} =>
           /\ permissions.t = "array"
           /\ RunsLength(permissions.runs) < MaxPermissionsCount
           /\ EveryStringUpTo(permissions, MaxPermissionItemLen - 1)

\* isValidSessionStructure that takes a null role, roles or permissions for
\* a value of the wrong type
isValidSessionStructureStrictNull(input) ==
  LET userId == Get(input, "userId")
      email == Get(input, "email")
      role == Get(input, "role")
      roles == Get(input, "roles")
      permissions == Get(input, "permissions")
  IN /\ ~Falsy(input)
     /\ input.t \in {"object", "array"}
     /\ userId.t = "string"
     /\ userId.trim > 0
     /\ userId.len <= MaxUserIdLen
     /\ email.t # "undefined" => (email.t = "string" /\ email.len <= MaxEmailLen)
     /\ role.t # "undefined" => (role.t = "string" /\ role.len <= MaxRoleLen)
     /\ roles.t # "undefined" =>
           /\ roles.t = "array"
           /\ RunsLength(roles.runs) <= MaxRolesCount
           /\ EveryStringUpTo(roles, MaxRoleItemLen)
     /\ permissions.t # "undefined" =>
           /\ permissions.t = "array"
           /\ RunsLength(permissions.runs) <= MaxPermissionsCount
           /\ EveryStringUpTo(permissions, MaxPermissionItemLen)

\* matcher.ts 63-131; typeof an array is 'object'
isValidSessionStructure(input) ==
  LET userId == Get(input, "userId")
      email == Get(input, "email")
      role == Get(input, "role")
      roles == Get(input, "roles")
      permissions == Get(input, "permissions")
  IN /\ ~Falsy(input)
     /\ input.t \in {"object", "array"}
     /\ userId.t = "string"
     /\ userId.trim > 0
     /\ userId.len <= MaxUserIdLen
     /\ email.t # "undefined" => (email.t = "string" /\ email.len <= MaxEmailLen)
     /\ role.t \notin {"undefined", "null"} =>
           (role.t = "string" /\ role.len <= MaxRoleLen)
     /\ roles.t \notin {"undefined", "null"} =>
           /\ roles.t = "array"
           /\ RunsLength(roles.runs) <= MaxRolesCount
           /\ EveryStringUpTo(roles, MaxRoleItemLen)
     /\ permissions.t \notin {"undefined", "null"} =>
           /\ permissions.t = "array"
           /\ RunsLength(permissions.runs) <= MaxPermissionsCount
           /\ EveryStringUpTo(permissions, MaxPermissionItemLen)

\* reading a property or calling a method of x throws a TypeError
DerefThrows(x) == x.t \in {"undefined", "null"}

\* isValidSessionStructure(input) throws: one of its property reads or
\* method calls is made on undefined or null.  session.userId is read once
\* line 65 has let input through; .trim() and .length are called on a
\* value whose typeof is 'string', .length and .every on a value that
\* Array.isArray accepts, and item.length on an item whose typeof is
\* 'string'
isValidSessionStructureThrows(input) ==
  LET userId == Get(input, "userId")
      email == Get(input, "email")
      role == Get(input, "role")
      roles == Get(input, "roles")
      permissions == Get(input, "permissions")
      itemThrows(array) == \E i \in 1..Len(array.runs) :
                              /\ array.runs[i].count > 0
                              /\ array.runs[i].item.t = "string"
                              /\ DerefThrows(array.runs[i].item)
  IN IF Falsy(input) \/ input.t \notin {"object", "array"} THEN FALSE
     ELSE \/ DerefThrows(input)
          \/ userId.t = "string" /\ DerefThrows(userId)
          \/ email.t # "undefined" /\ email.t = "string" /\ DerefThrows(email)
          \/ role.t \notin {"undefined", "null"} /\ role.t = "string" /\ DerefThrows(role)
          \/ roles.t \notin {"undefined", "null"} /\ roles.t = "array"
                /\ (DerefThrows(roles) \/ itemThrows(roles))
          \/ permissions.t \notin {"undefined", "null"} /\ permissions.t = "array"
                /\ (DerefThrows(permissions) \/ itemThrows(permissions))

\* the carrier has no session store (context.session is undefined)
NoStore == [noStore |-> TRUE]
\* no call of the session API yet, no run of sessionMiddleware yet
NoCall == [op |-> "none"]
NoRun == [ran |-> FALSE, hostStore |-> NoContext]

\* context.session?.get('__session__'): undefined without a store and for a
\* slot that is not there
StoreGet(context) ==
  IF context = NoStore \/ context.slot = Missing THEN VUndefined ELSE context.slot

\* context.session?.set('__session__', value)
StoreSet(context, value) ==
  IF context = NoStore THEN context ELSE [slot |-> value]

\* context.session?.delete('__session__')
StoreDelete(context) ==
  IF context = NoStore THEN context ELSE [slot |-> Missing]

\* sessions and other values the host passes to setSession or finds in its
\* store: two valid sessions, and objects without userId, with an empty
\* userId, with a number as role, with 501 permissions
ValidSessions ==
  { VObject(VString("u1", 2), Missing, VString("admin", 5), Missing,
            VArray(<<Run(VString("read", 4), 1)>>), Missing),
    VObject(VString("x255", 255), VString("e", 1), VNull, Missing, Missing,
            VString("value", 5)) }

InvalidSessions ==
  { VObject(Missing, VString("e", 1), Missing, Missing, Missing, Missing),
    VObject(VString("", 0), Missing, Missing, Missing, Missing, Missing),
    VObject(VString("u1", 2), Missing, VNumber(5), Missing, Missing, Missing),
    VObject(VString("u1", 2), Missing, Missing, Missing,
            VArray(<<Run(VString("perm", 4), 501)>>), Missing) }

SessionInputs == ValidSessions \cup InvalidSessions \cup {VNull}

\* the partial sessions passed to updateSession: {}, {role: "editor"},
\* {userId: ""}, {userId: "u3", role: undefined}, {role: 5}
UpdateInputs ==
  { VObject(Missing, Missing, Missing, Missing, Missing, Missing),
    VObject(Missing, Missing, VString("editor", 6), Missing, Missing, Missing),
    VObject(VString("", 0), Missing, Missing, Missing, Missing, Missing),
    VObject(VString("u3", 2), Missing, VUndefined, Missing, Missing, Missing),
    VObject(Missing, Missing, VNumber(5), Missing, Missing, Missing) }

\* what the host's store holds when the first call is made
InitialCarriers ==
  {NoStore, [slot |-> Missing], [slot |-> VNull]}
  \cup {[slot |-> v] : v \in ValidSessions \cup InvalidSessions}


\* setSession that writes without validating
setSessionUnchecked(context, session) ==
  [context |-> StoreSet(context, session), threw |-> "none"]

\* setSession (server.ts 141-151): the carrier after the call and what the
\* call threw
setSession(context, session) ==
  IF ~isValidSessionStructure(session)
  THEN [context |-> context, threw |-> "invalid"]
  ELSE [context |-> StoreSet(context, session), threw |-> "none"]

\* clearSession that removes only a valid session
clearSessionOnlyValid(context) ==
  [context |-> IF isValidSessionStructure(StoreGet(context))
               THEN StoreDelete(context) ELSE context,
   threw |-> "none"]

\* clearSession (server.ts 176-178)
clearSession(context) ==
  [context |-> StoreDelete(context), threw |-> "none"]

\* {...updates, ...currentSession}
mergeSessionReversed(currentSession, updates) ==
  LET pick(field) == IF currentSession[field] # Missing THEN currentSession[field]
                     ELSE updates[field]
  IN VObject(pick("userId"), pick("email"), pick("role"), pick("roles"),
             pick("permissions"), pick("customField"))

\* {...currentSession, ...updates} (server.ts 215): every own property of
\* updates, also one whose value is undefined, replaces that of currentSession
mergeSession(currentSession, updates) ==
  LET pick(field) == IF updates[field] # Missing THEN updates[field]
                     ELSE currentSession[field]
  IN VObject(pick("userId"), pick("email"), pick("role"), pick("roles"),
             pick("permissions"), pick("customField"))

\* updateSession that starts from {} when there is no session
updateSessionFromNothing(context, updates) ==
  LET got == StoreGet(context)
      currentSession == IF Falsy(got)
                        THEN VObject(Missing, Missing, Missing, Missing, Missing, Missing)
                        ELSE got
      updatedSession == mergeSession(currentSession, updates)
  IN IF ~isValidSessionStructure(updatedSession)
     THEN [context |-> context, threw |-> "invalid"]
     ELSE [context |-> StoreSet(context, updatedSession), threw |-> "none"]

\* updateSession that stores the updates alone
updateSessionReplaces(context, updates) ==
  LET currentSession == StoreGet(context)
  IN IF Falsy(currentSession)
     THEN [context |-> context, threw |-> "noSession"]
     ELSE IF ~isValidSessionStructure(updates)
          THEN [context |-> context, threw |-> "invalid"]
          ELSE [context |-> StoreSet(context, updates), threw |-> "none"]

\* updateSession that writes the merged object without validating it
updateSessionUnvalidated(context, updates) ==
  LET currentSession == StoreGet(context)
  IN IF Falsy(currentSession)
     THEN [context |-> context, threw |-> "noSession"]
     ELSE [context |-> StoreSet(context, mergeSession(currentSession, updates)),
           threw |-> "none"]

\* updateSession (server.ts 207-225)
updateSession(context, updates) ==
  LET currentSession == StoreGet(context)
  IN IF Falsy(currentSession)
     THEN [context |-> context, threw |-> "noSession"]
     ELSE LET updatedSession == mergeSession(currentSession, updates)
          IN IF ~isValidSessionStructure(updatedSession)
             THEN [context |-> context, threw |-> "invalid"]
             ELSE [context |-> StoreSet(context, updatedSession), threw |-> "none"]

\* a session API that also hands what it left in the slot to the context
\* of the request
runAfterCallFollowsSlot(run, result) ==
  IF run.ran /\ run.context # NoContext
  THEN LET got == StoreGet(result.context)
           session == IF ~Falsy(got) /\ isValidSessionStructure(got) THEN got ELSE VNull
       IN [run EXCEPT !.context = [session |-> session], !.getSession = session]
  ELSE run

\* The run of sessionMiddleware after a call of the session API made in its
\* request.  setSession, clearSession and updateSession (server.ts 141-225)
\* call context.session?.get / set / delete and nothing else: none calls
\* runWithContext or setContextStore, and updateSession merges into a new
\* object (line 215), so the context of the request and the session object
\* in it are what they were
runAfterCall(run, result) == run

\* a call of the session API: op with its argument, what it threw, the
\* carrier before it and the call that came before it
ApiCall(op, arg, result) ==
  /\ carrier' = result.context
  /\ sessionCall' = [op |-> op, arg |-> arg, threw |-> result.threw,
                      before |-> carrier, prevOp |-> sessionCall.op]
  /\ mwRun' = runAfterCall(mwRun, result)
  /\ UNCHANGED <<guardVars, contextVars, probeVars>>

SetSession(session) == ApiCall("setSession", session, setSession(carrier, session))

ClearSession == ApiCall("clearSession", VUndefined, clearSession(carrier))

UpdateSession(updates) == ApiCall("updateSession", updates, updateSession(carrier, updates))

\* config.name, undefined for a property the configuration does not have
Field(record, name) == IF name \in DOMAIN record THEN record[name] ELSE Undefined

\* the raw slot value used as the session without validation
validatedSessionUnchecked(rawSession) ==
  IF ~Falsy(rawSession) THEN rawSession ELSE VNull

\* sessionMiddleware.ts 27-42: the session to propagate
validatedSession(rawSession) ==
  IF ~Falsy(rawSession) /\ isValidSessionStructure(rawSession) THEN rawSession ELSE VNull

\* sessionMiddleware.ts 22-56.  raw is what it read from the slot, context
\* the context the downstream handler runs in (NoContext when the
\* middleware leaves propagation to the host, line 50), getSession what
\* getSession() returns in the handler, afterOp the last session API call
\* before the run.  hooks are the context functions configured at the run,
\* setCalls the arguments of the calls of config.setContextStore the run
\* made (lines 44-56 make none), hostStore the host's own context store,
\* which its setContextStore writes and its getContextStore reads, and
\* store what getContextStore() returns in the handler: what the custom
\* getter reads when one is configured, the store of als.run otherwise
SessionMiddleware(nextResult) ==
  /\ LET got == StoreGet(carrier)
         rawSession == IF got.t \in {"undefined", "null"} THEN VNull ELSE got
         session == validatedSession(rawSession)
         hostManaged == /\ Field(getConfig, "getSessionContext") # Undefined
                        /\ Field(getConfig, "runWithSessionContext") = Undefined
         setCalls == <<>>
         hostStore == IF setCalls # <<>> THEN setCalls[Len(setCalls)] ELSE mwRun.hostStore
     IN mwRun' = [ran |-> TRUE, raw |-> rawSession, threw |-> FALSE,
                  context |-> IF hostManaged THEN NoContext ELSE [session |-> session],
                  getSession |-> IF hostManaged THEN [t |-> "host"] ELSE session,
                  nextCalls |-> 1, result |-> nextResult, afterOp |-> sessionCall.op,
                  hooks |-> [runWithContext |-> getConfig.runWithContext,
                             getContextStore |-> getConfig.getContextStore,
                             setContextStore |-> getConfig.setContextStore],
                  setCalls |-> setCalls,
                  hostStore |-> hostStore,
                  store |-> IF getConfig.getContextStore # Undefined THEN hostStore
                            ELSE IF hostManaged THEN NoContext ELSE [session |-> session]]
  /\ UNCHANGED <<carrier, sessionCall, guardVars, contextVars, probeVars>>

\* ------------------------------------------------------------------------
\* matchesPattern, isValidPattern and isValidRedirectPath called on their
\* own (core/matcher.ts 49-51, 136-168, 173-189)
\* ------------------------------------------------------------------------

\* no call
NoProbe == [fn |-> "none"]

RECURSIVE StringsOfLen(_, _)
\* the strings of n characters of chars
StringsOfLen(chars, n) ==
  IF n = 0 THEN {<<>>}
  ELSE {Append(w, c) : w \in StringsOfLen(chars, n - 1), c \in chars}

StringsUpTo(chars, n) == UNION {StringsOfLen(chars, k) : k \in 0..n}

\* w.repeat(n)
Repeat(w, n) == [i \in 1..(n * Len(w)) |-> w[((i - 1) % Len(w)) + 1]]

\* request paths: every string of "/", "a", "b" that starts with "/"
ProbePaths ==
  {path \in StringsUpTo({"/", "a", "b"}, MaxProbeLen) : Len(path) >= 1 /\ path[1] = "/"}

\* "/a", "/b", "/a/b"
ProbeBases == { <<"/", "a">>, <<"/", "b">>, <<"/", "a", "/", "b">> }

\* "/*/a/*"
TwoWildcards == <<"/", "*", "/", "a", "/", "*">>

\* base/** and base/* for every base, and "/*/a/*"
ProbePatterns ==
  {base \o <<"/", "*", "*">> : base \in ProbeBases}
  \cup {base \o <<"/", "*">> : base \in ProbeBases}
  \cup {TwoWildcards}

\* what isValidPattern is given: every string of "/", "*", "a"; "/" and 10
\* or 20 asterisks; "/" and 10, 20 or 21 times "a*/"; "/" and 21 times
\* "a*"; and a value that is no string
ProbeValidatedPatterns ==
  StringsUpTo({"/", "*", "a"}, MaxProbeLen)
  \cup {<<"/">> \o Repeat(<<"*">>, n) : n \in {10, 20}}
  \cup {<<"/">> \o Repeat(<<"a", "*", "/">>, n) : n \in {10, 20, 21}}
  \cup {<<"/">> \o Repeat(<<"a", "*">>, 21)}
  \cup {Absent}

\* "http://x" and "javascript:x"
HttpUrl == <<"h", "t", "t", "p", ":", "/", "/", "x">>
JavascriptUrl == <<"j", "a", "v", "a", "s", "c", "r", "i", "p", "t", ":", "x">>

\* what isValidRedirectPath is given: every string of "/", "x", ":"; the two
\* URLs; "/" and 499 or 500 times "a"; and a value that is no string
ProbeRedirectPaths ==
  StringsUpTo({"/", "x", ":"}, MaxProbeLen)
  \cup {HttpUrl, JavascriptUrl}
  \cup {<<"/">> \o Repeat(<<"a">>, n) : n \in {499, 500}}
  \cup {Absent}

\* true, false
VBoolean(b) == [t |-> "boolean", b |-> b]

\* {userId: "u"} with the other properties as given
ProbeSession(email, role, roles, permissions) ==
  VObject(VString("u", 1), email, role, roles, permissions, Missing)

\* values of the wrong type for a property that is to be a string, and for
\* one that is to be an array of strings
WrongForString == {VNumber(123), VNull, VBoolean(TRUE), VArray(<<Run(VString("admin", 5), 1)>>)}
WrongForArray ==
  { VString("admin", 5), VNull, VNumber(123),
    VArray(<<Run(VString("admin", 5), 1), Run(VNumber(123), 1), Run(VString("user", 4), 1)>>),
    VArray(<<Run(VNull, 1)>>) }

\* what isValidSessionStructure is given: values that are no objects; objects
\* whose userId is missing, no string, blank, or 1, 255 or 256 characters
\* long; sessions with an email of 320 or 321 and a role of 100 or 101
\* characters, with 0, 100 or 101 roles and 0, 500 or 501 permissions, with
\* a role item of 100 or 101 and a permission item of 200 or 201
\* characters; and sessions with one property of the wrong type
ProbeSessions ==
  { VNull, VUndefined, VString("string", 6), VString("", 0), VNumber(123), VNumber(0),
    VBoolean(TRUE), VBoolean(FALSE), VArray(<<>>), VArray(<<Run(VString("u", 1), 1)>>) }
  \cup { VObject(userId, Missing, Missing, Missing, Missing, customField) :
           userId \in {Missing, VNumber(123), VNull, VString("", 0), VBlank(3),
                       VString("u", 1), VString("a", MaxUserIdLen),
                       VString("a", MaxUserIdLen + 1)},
           customField \in {Missing, VString("value", 5)} }
  \cup { ProbeSession(VString("a", n), Missing, Missing, Missing) :
           n \in {MaxEmailLen, MaxEmailLen + 1} }
  \cup { ProbeSession(Missing, VString("a", n), Missing, Missing) :
           n \in {MaxRoleLen, MaxRoleLen + 1} }
  \cup { ProbeSession(Missing, Missing, VArray(<<Run(VString("role", 4), n)>>), Missing) :
           n \in {0, MaxRolesCount, MaxRolesCount + 1} }
  \cup { ProbeSession(Missing, Missing, Missing, VArray(<<Run(VString("perm", 4), n)>>)) :
           n \in {0, MaxPermissionsCount, MaxPermissionsCount + 1} }
  \cup { ProbeSession(Missing, Missing, VArray(<<Run(VString("a", n), 1)>>), Missing) :
           n \in {MaxRoleItemLen, MaxRoleItemLen + 1} }
  \cup { ProbeSession(Missing, Missing, Missing, VArray(<<Run(VString("a", n), 1)>>)) :
           n \in {MaxPermissionItemLen, MaxPermissionItemLen + 1} }
  \cup { ProbeSession(v, Missing, Missing, Missing) : v \in WrongForString }
  \cup { ProbeSession(Missing, v, Missing, Missing) : v \in WrongForString }
  \cup { ProbeSession(Missing, Missing, v, Missing) : v \in WrongForArray }
  \cup { ProbeSession(Missing, Missing, Missing, v) : v \in WrongForArray }
  \cup { ProbeSession(Missing, VNull, VNull, VNull) }

\* the calls to make
ProbeInputs ==
  {[fn |-> "matchesPattern", pattern |-> pattern, path |-> path, done |-> FALSE,
    result |-> FALSE] : pattern \in ProbePatterns, path \in ProbePaths}
  \cup {[fn |-> "isValidPattern", pattern |-> pattern, path |-> Absent, done |-> FALSE,
         result |-> FALSE] : pattern \in ProbeValidatedPatterns}
  \cup {[fn |-> "isValidRedirectPath", pattern |-> Absent, path |-> path, done |-> FALSE,
         result |-> FALSE] : path \in ProbeRedirectPaths}
  \cup {[fn |-> "isValidSessionStructure", pattern |-> Absent, path |-> Absent,
         input |-> input, done |-> FALSE, result |-> FALSE, threw |-> FALSE] :
           input \in ProbeSessions}

\* matchesPattern(pattern, path) returns
CallMatchesPattern ==
  /\ probe.fn = "matchesPattern"
  /\ ~probe.done
  /\ probe' = [probe EXCEPT !.done = TRUE,
                            !.result = matchesPattern(probe.pattern, probe.path)]
  /\ UNCHANGED <<guardVars, contextVars, sessionVars>>

\* isValidPattern(pattern) returns
CallIsValidPattern ==
  /\ probe.fn = "isValidPattern"
  /\ ~probe.done
  /\ probe' = [probe EXCEPT !.done = TRUE, !.result = isValidPattern(probe.pattern)]
  /\ UNCHANGED <<guardVars, contextVars, sessionVars>>

\* isValidSessionStructure(input) returns or throws
CallIsValidSessionStructure ==
  /\ probe.fn = "isValidSessionStructure"
  /\ ~probe.done
  /\ probe' = [probe EXCEPT !.done = TRUE,
                            !.threw = isValidSessionStructureThrows(probe.input),
                            !.result = /\ ~isValidSessionStructureThrows(probe.input)
                                       /\ isValidSessionStructure(probe.input)]
  /\ UNCHANGED <<guardVars, contextVars, sessionVars>>

\* isValidRedirectPath(path) returns
CallIsValidRedirectPath ==
  /\ probe.fn = "isValidRedirectPath"
  /\ ~probe.done
  /\ probe' = [probe EXCEPT !.done = TRUE, !.result = isValidRedirectPath(probe.path)]
  /\ UNCHANGED <<guardVars, contextVars, sessionVars>>

\* no request is under way
Quiet ==
  /\ req = IdleRequest
  /\ peer = IdleRequest
  /\ frame = NoContext
  /\ running = "none"
  /\ tasks = [t \in TaskIds |-> NewTask]
  /\ outsideSeen = {}
  /\ carrier = NoStore
  /\ sessionCall = NoCall
  /\ mwRun = NoRun
  /\ probe = NoProbe

Init ==
  /\ config = DEFAULT_CONFIG
  /\ thrown = "none"
  /\ Quiet

Next ==
  \/ \E pathname \in Paths, ctx \in ContextValues : GuardStart(pathname, ctx)
  \/ HookSettles
  \/ \E nextResult \in NextResults : GuardResume(nextResult)
  \/ Return
  \/ \E userConfig \in UserConfigs : Configure(userConfig)
  \/ \E userConfig \in ReconfigInputs : Reconfigure(userConfig)

Spec == Init /\ [][Next]_vars

\* The Configuration Store alone: the host calls setConfig any number of
\* times, with valid and invalid input, and no request is served
NextConfig == \E userConfig \in StoreInputs : SetConfig(userConfig)

SpecConfig == Init /\ [][NextConfig]_vars

\* The guard serving requests under whatever configuration setConfig has
\* accepted: the host calls setConfig at any time, with valid and invalid
\* input
NextGuardStore ==
  \/ \E pathname \in Paths, ctx \in ContextValues : GuardStart(pathname, ctx)
  \/ HookSettles
  \/ \E nextResult \in NextResults : GuardResume(nextResult)
  \/ Return
  \/ \E userConfig \in GuardStoreInputs : SetConfig(userConfig)

SpecGuardStore == Init /\ [][NextGuardStore]_vars

\* Two requests under one configuration installed at startup, whose rule
\* for "/a/**" has an allow predicate or whose check hook decides every path
FairConfigInputs ==
  ReconfigInputs
  \cup { UserConfig(Absent,
                    [rules |-> << Rule(<<"/", "a", "/", "*", "*">>, Absent, Undefined, Absent,
                                       Undefined, Absent, "allowFn") >>],
                    NoAccess, Undefined, Undefined, Undefined) }

\* request paths "/a/u", "/x", without and with a session
FairPaths == { <<"/", "a", "/", "u">>, <<"/", "x">> }
FairContexts == {NoContext, [session |-> Session("u1", "admin", Absent, Undefined, Absent)]}

NextGuardFair ==
  \/ \E userConfig \in FairConfigInputs : Configure(userConfig)
  \/ \E pathname \in FairPaths, ctx \in FairContexts : GuardStart(pathname, ctx)
  \/ HookSettles
  \/ \E nextResult \in NextResults : GuardResume(nextResult)
  \/ Return
  \/ \E pathname \in FairPaths, ctx \in FairContexts : PeerStart(pathname, ctx)
  \/ PeerSettles
  \/ \E nextResult \in NextResults : PeerResume(nextResult)
  \/ PeerReturn

\* The event loop runs the continuation of a settled promise: a decision
\* that has the value of checkRule resumes (lines 274-281), for both
\* requests.  The promise of the peer's predicate settles; that of the
\* first request's predicate is the host's and may stay pending for ever.
GuardFairness ==
  /\ WF_vars(\E nextResult \in NextResults : GuardResume(nextResult))
  /\ WF_vars(\E nextResult \in NextResults : PeerResume(nextResult))
  /\ WF_vars(PeerSettles)

SpecGuardFair == Init /\ [][NextGuardFair]_vars /\ GuardFairness

TypeOK ==
  /\ req.pc \in {"idle", "pending", "resolved", "done"}
  /\ req.outcome \in {"none", "next", "redirect", "error"}
  /\ req.nextCalls \in 0..1

\* Two requests run inside runWithContext, interleaved at their awaits, while
\* the host may reconfigure
NextContext ==
  \/ \E t \in TaskIds, context \in RunContexts : ContextRun(t, context)
  \/ \E t \in TaskIds : ContextCall(t)
  \/ \E t \in TaskIds : ContextSuspend(t)
  \/ \E t \in TaskIds : ContextResume(t)
  \/ \E t \in TaskIds : ContextReturn(t)
  \/ ContextOutside
  \/ \E userConfig \in ContextConfigInputs : SetConfig(userConfig)

SpecContext == Init /\ [][NextContext]_vars

\* The session API and sessionMiddleware on one carrier, whose store the
\* host may have filled before
InitSession ==
  /\ config = DEFAULT_CONFIG
  /\ thrown = "none"
  /\ req = IdleRequest
  /\ peer = IdleRequest
  /\ frame = NoContext
  /\ running = "none"
  /\ tasks = [t \in TaskIds |-> NewTask]
  /\ outsideSeen = {}
  /\ carrier \in InitialCarriers
  /\ sessionCall = NoCall
  /\ mwRun = NoRun
  /\ probe = NoProbe

\* the configurations the host of the session store switches between: the
\* defaults, a custom getContextStore / setContextStore pair, a custom
\* runWithContext, and all three
MiddlewareConfigInputs ==
  ContextConfigInputs
  \cup { UserConfig(Absent, NoProtect, NoAccess, "customRunner", Undefined, Undefined),
         UserConfig(Absent, NoProtect, NoAccess, "customRunner", "customGetter",
                    "customSetter") }

NextSession ==
  \/ \E session \in SessionInputs : SetSession(session)
  \/ ClearSession
  \/ \E updates \in UpdateInputs : UpdateSession(updates)
  \/ \E nextResult \in NextResults : SessionMiddleware(nextResult)

SpecSession == InitSession /\ [][NextSession]_vars

\* The session API alone on a carrier whose slot is empty when the first
\* call is made: a carrier without a session store, or a store without the
\* '__session__' slot
EmptyCarriers == {NoStore, [slot |-> Missing]}

InitSessionEmpty ==
  /\ config = DEFAULT_CONFIG
  /\ thrown = "none"
  /\ req = IdleRequest
  /\ peer = IdleRequest
  /\ frame = NoContext
  /\ running = "none"
  /\ tasks = [t \in TaskIds |-> NewTask]
  /\ outsideSeen = {}
  /\ carrier \in EmptyCarriers
  /\ sessionCall = NoCall
  /\ mwRun = NoRun
  /\ probe = NoProbe

NextSessionApi ==
  \/ \E session \in SessionInputs : SetSession(session)
  \/ ClearSession
  \/ \E updates \in UpdateInputs : UpdateSession(updates)

SpecSessionApi == InitSessionEmpty /\ [][NextSessionApi]_vars

\* sessionMiddleware serving requests on a carrier the host has filled,
\* while the host installs context functions
NextMiddleware ==
  \/ \E nextResult \in NextResults : SessionMiddleware(nextResult)
  \/ \E userConfig \in MiddlewareConfigInputs : SetConfig(userConfig)
  \/ \E session \in ValidSessions : SetSession(session)
  \/ ClearSession

SpecMiddleware == InitSession /\ [][NextMiddleware]_vars

\* matchesPattern and the validators, each called once on one input
InitProbe ==
  /\ config = DEFAULT_CONFIG
  /\ thrown = "none"
  /\ req = IdleRequest
  /\ peer = IdleRequest
  /\ frame = NoContext
  /\ running = "none"
  /\ tasks = [t \in TaskIds |-> NewTask]
  /\ outsideSeen = {}
  /\ carrier = NoStore
  /\ sessionCall = NoCall
  /\ mwRun = NoRun
  /\ probe \in ProbeInputs

NextProbe ==
  \/ CallMatchesPattern
  \/ CallIsValidPattern
  \/ CallIsValidRedirectPath
  \/ CallIsValidSessionStructure

SpecProbe == InitProbe /\ [][NextProbe]_vars

\* ------------------------------------------------------------------------
\* Properties of the guard
\* ------------------------------------------------------------------------

\* the indices of the rules of protect whose pattern matches path
MatchSet(protect, path) ==
  {i \in 1..Len(protect) : matchesPattern(protect[i].pattern, path)}

Least(S) == CHOOSE k \in S : \A j \in S : k <= j

\* the check hook or allow predicate threw, or its promise rejected
Threw == req.ret # NoReturn /\ req.ret.threw

\* checkRule has returned its verdict
Evaluated == req.rule # NoRule /\ req.pc \in {"resolved", "done"} /\ ~Threw

\* a rule was matched and no check hook is configured
NoCheckHook == req.rule # NoRule /\ req.access.check = Undefined

\* C1: the rule the guard evaluates is the first rule, in configured order,
\* whose pattern matches the path: find tests the patterns up to that rule and
\* no further, the check hook gets that rule, and the verdict and the outcome
\* are those of that rule whatever a later matching rule would decide.
C1_FirstMatchDecides ==
  (req.pc # "idle" /\ Len(req.protect) > 0) =>
    LET M == MatchSet(req.protect, req.path)
    IN IF M = {}
       THEN req.rule = NoRule /\ req.ruleIdx = 0 /\ req.tested = Len(req.protect)
       ELSE LET k == Least(M)
                first == req.protect[k]
            IN /\ req.ruleIdx = k
               /\ req.rule = first
               /\ req.tested = k
               /\ req.call = "check" => req.callRule = first
               /\ (Evaluated /\ req.ret = NoReturn) =>
                     req.allowed = checkRuleWith(req.access, first, req.session).allowed
               /\ (req.pc = "done" /\ req.ret = NoReturn) =>
                     /\ req.outcome \in {"next", "redirect"}
                     /\ (req.outcome = "next") =
                           checkRuleWith(req.access, first, req.session).allowed

\* the first matching rule denied and the request was redirected, although a
\* later rule matches too and would admit the session
C1_Witness ==
  /\ req.pc = "done"
  /\ req.outcome = "redirect"
  /\ req.ret = NoReturn
  /\ \E j \in (req.ruleIdx + 1)..Len(req.protect) :
        /\ matchesPattern(req.protect[j].pattern, req.path)
        /\ checkRuleWith(req.access, req.protect[j], req.session).allowed

\* C2: when the matched rule evaluates to deny, the guard redirects to the
\* rule's redirectTo if it has one and to the loginPath of the configuration
\* otherwise, and the downstream handler is not invoked for the request.
C2_DenyRedirects ==
  (Evaluated /\ ~req.allowed) =>
    /\ req.nextCalls = 0
    /\ req.pc = "done" =>
          /\ req.outcome = "redirect"
          /\ req.result = "redirect"
          /\ req.location = IF req.rule.redirectTo # Absent
                            THEN req.rule.redirectTo ELSE req.loginPath

\* a denied request redirected to the target of its rule, which is not the
\* loginPath
C2_Witness ==
  /\ req.pc = "done"
  /\ req.outcome = "redirect"
  /\ req.rule.redirectTo # Absent
  /\ req.location = req.rule.redirectTo
  /\ req.location # req.loginPath
  /\ req.nextCalls = 0

\* C3: when the guard admits (no rule matched, or the matched rule allowed) it
\* invokes the downstream handler exactly once and returns what the handler
\* returned; no request has both a redirect and a downstream invocation.
C3_AdmitDelegatesOnce ==
  /\ (req.pc = "done" /\ (req.rule = NoRule \/ (req.allowed /\ ~Threw))) =>
        /\ req.outcome = "next"
        /\ req.nextCalls = 1
        /\ req.nextValue \in NextResults
        /\ req.result = req.nextValue
  /\ req.outcome = "redirect" => req.nextCalls = 0
  /\ req.outcome # "next" => req.nextCalls = 0
  /\ req.nextCalls <= 1

\* a session admitted by the rule that matched its request
C3_Witness ==
  /\ req.pc = "done"
  /\ req.rule # NoRule
  /\ req.session # NoSession
  /\ req.allowed
  /\ req.outcome = "next"
  /\ req.nextCalls = 1
  /\ req.result = "page"

\* C4: when no rule's pattern matches the path the request is admitted for
\* any session, none included, and neither check, allow, getRole nor
\* getPermissions is called; with no rule at all matchesPattern is not called.
C4_NoMatchAdmits ==
  (req.pc # "idle" /\ MatchSet(req.protect, req.path) = {}) =>
    /\ req.pc = "done"
    /\ req.outcome = "next"
    /\ req.nextCalls = 1
    /\ req.rule = NoRule
    /\ req.call = "none"
    /\ req.ret = NoReturn
    /\ Len(req.protect) = 0 => req.tested = 0

\* a request without session admitted under rules none of which matches
C4_Witness ==
  /\ req.pc = "done"
  /\ Len(req.protect) > 0
  /\ MatchSet(req.protect, req.path) = {}
  /\ req.session = NoSession
  /\ req.outcome = "next"

\* C5: with a check hook configured the verdict for the matched rule is the
\* awaited result of check(rule, session) and of nothing else: allow, getRole,
\* getPermissions and the denial of a missing session are bypassed.
C5_CheckHookDecides ==
  (req.rule # NoRule /\ req.access.check # Undefined) =>
    /\ req.call = "check"
    /\ req.callRule = req.rule
    /\ req.callSession = req.session
    /\ req.ret \in HookReturns
    /\ Evaluated => req.allowed = req.ret.value
    /\ (req.pc = "done" /\ ~Threw) =>
          /\ (req.outcome = "next") = req.ret.value
          /\ (req.outcome = "redirect") = ~req.ret.value

\* check admitted a request that has no session, on a rule that asks for a role
C5_Witness ==
  /\ req.pc = "done"
  /\ req.rule # NoRule
  /\ req.access.check # Undefined
  /\ req.rule.role # Undefined
  /\ req.session = NoSession
  /\ req.outcome = "next"

\* C6: with no check hook a rule carrying allow is decided by allow(session),
\* called also for a null session; the guard neither admits nor redirects
\* before the value or promise allow returned has settled, and then decides
\* by the settled value.
C6_AllowIsAwaited ==
  (NoCheckHook /\ req.rule.allow # Undefined) =>
    /\ req.call = "allow"
    /\ req.callSession = req.session
    /\ req.ret \in HookReturns
    /\ ~req.settled => (req.ret.async /\ req.outcome = "none" /\ req.nextCalls = 0)
    /\ req.pc \in {"resolved", "done"} => req.settled
    /\ Evaluated => req.allowed = req.ret.value
    /\ (req.pc = "done" /\ ~Threw) =>
          /\ (req.outcome = "next") = req.ret.value
          /\ (req.outcome = "redirect") = ~req.ret.value

\* an asynchronous allow, called without session, has resolved to true and
\* the request is admitted
C6_Witness ==
  /\ req.pc = "done"
  /\ NoCheckHook
  /\ req.rule.allow # Undefined
  /\ req.ret.async
  /\ req.settled
  /\ req.session = NoSession
  /\ req.outcome = "next"

\* the rule carries role, roles, permission or permissions
CarriesBuiltIn(rule) ==
  \/ rule.role # Undefined
  \/ rule.roles # Absent
  \/ rule.permission # Undefined
  \/ rule.permissions # Absent

\* C7: with no check hook a request without session that matches a rule
\* carrying role, roles, permission or permissions is denied, whatever
\* getRole and getPermissions return for a null session and also when the
\* list of required permissions is empty.
C7_NoSessionDenied ==
  (NoCheckHook /\ CarriesBuiltIn(req.rule) /\ req.session = NoSession /\ req.pc # "idle") =>
    /\ req.call = "none"
    /\ req.pc \in {"resolved", "done"}
    /\ ~req.allowed
    /\ req.nextCalls = 0
    /\ req.pc = "done" => req.outcome = "redirect"

\* a request without session redirected although getRole returns the required
\* role for a null session
C7_Witness ==
  /\ req.pc = "done"
  /\ NoCheckHook
  /\ req.session = NoSession
  /\ req.rule.role # Undefined
  /\ ApplyGetRole(req.access.getRole, NoSession) = req.rule.role
  /\ req.outcome = "redirect"

\* C8 as stated: with no check hook and a session, a rule carrying role
\* admits iff getRole(session) equals rule.role, and a session whose role
\* differs is redirected to the configured loginPath.
C8_RoleRedirectsToLoginPath ==
  (NoCheckHook /\ req.rule.role # Undefined /\ req.session # NoSession) =>
    /\ Evaluated =>
          req.allowed = (ApplyGetRole(req.access.getRole, req.session) = req.rule.role)
    /\ (req.pc = "done" /\ ApplyGetRole(req.access.getRole, req.session) # req.rule.role) =>
          /\ req.outcome = "redirect"
          /\ req.location = req.loginPath

\* C8 amended: with no check hook and a session, a rule carrying role admits
\* iff getRole(session) equals rule.role; a session whose role differs is
\* redirected to the rule's redirectTo if the rule has one, and to the
\* configured loginPath otherwise.
C8_RoleExactMatch ==
  (NoCheckHook /\ req.rule.role # Undefined /\ req.session # NoSession /\ req.pc # "idle") =>
    /\ req.call = "getRole"
    /\ req.callSession = req.session
    /\ Evaluated
    /\ req.allowed = (ApplyGetRole(req.access.getRole, req.session) = req.rule.role)
    /\ req.pc = "done" =>
          IF ApplyGetRole(req.access.getRole, req.session) = req.rule.role
          THEN req.outcome = "next"
          ELSE /\ req.outcome = "redirect"
               /\ req.location = IF req.rule.redirectTo # Absent
                                 THEN req.rule.redirectTo ELSE req.loginPath

\* a session whose role differs from the rule's, redirected to the default
\* loginPath "/login" by a rule without redirectTo
C8_Witness ==
  /\ req.pc = "done"
  /\ NoCheckHook
  /\ req.rule.role # Undefined
  /\ req.rule.redirectTo = Absent
  /\ req.session # NoSession
  /\ ApplyGetRole(req.access.getRole, req.session) \notin {Null, req.rule.role}
  /\ req.outcome = "redirect"
  /\ req.location = DEFAULT_CONFIG.loginPath

\* C9: with no check hook and a session, a rule carrying roles admits iff
\* getRole(session) is not null and is one of rule.roles; a session with no
\* role is denied for every list of roles.
C9_RolesMembership ==
  (NoCheckHook /\ req.rule.roles # Absent /\ req.session # NoSession /\ req.pc # "idle") =>
    LET userRole == ApplyGetRole(req.access.getRole, req.session)
        member == \E i \in 1..Len(req.rule.roles) : req.rule.roles[i] = userRole
    IN /\ req.call = "getRole"
       /\ req.callSession = req.session
       /\ Evaluated
       /\ req.allowed = (userRole # Null /\ member)
       /\ userRole = Null => ~req.allowed
       /\ req.pc = "done" =>
             req.outcome = IF userRole # Null /\ member THEN "next" ELSE "redirect"

\* a session that has a role, though none of the rule's roles, is redirected
C9_Witness ==
  /\ req.pc = "done"
  /\ NoCheckHook
  /\ req.rule.roles # Absent
  /\ req.session # NoSession
  /\ ApplyGetRole(req.access.getRole, req.session) # Null
  /\ \A i \in 1..Len(req.rule.roles) :
        req.rule.roles[i] # ApplyGetRole(req.access.getRole, req.session)
  /\ req.outcome = "redirect"

\* C10: with no check hook and a session, a rule carrying permission admits
\* iff getPermissions(session) contains rule.permission.
C10_PermissionContained ==
  (NoCheckHook /\ req.rule.permission # Undefined /\ req.session # NoSession
     /\ req.pc # "idle") =>
    LET userPermissions == ApplyGetPermissions(req.access.getPermissions, req.session)
        held == \E i \in 1..Len(userPermissions) : userPermissions[i] = req.rule.permission
    IN /\ req.call = "getPermissions"
       /\ req.callSession = req.session
       /\ Evaluated
       /\ req.allowed = held
       /\ req.pc = "done" => req.outcome = IF held THEN "next" ELSE "redirect"

\* a session admitted for a permission that is not the first one it holds
C10_Witness ==
  /\ req.pc = "done"
  /\ NoCheckHook
  /\ req.rule.permission # Undefined
  /\ req.session # NoSession
  /\ LET userPermissions == ApplyGetPermissions(req.access.getPermissions, req.session)
     IN /\ Len(userPermissions) > 1
        /\ userPermissions[1] # req.rule.permission
        /\ \E i \in 2..Len(userPermissions) : userPermissions[i] = req.rule.permission
  /\ req.outcome = "next"

\* C11: with no check hook and a session, a rule carrying permissions admits
\* iff every required permission is in getPermissions(session): one lacking
\* permission denies, permissions held beyond the required ones change nothing.
C11_PermissionsAllRequired ==
  (NoCheckHook /\ req.rule.permissions # Absent /\ req.session # NoSession
     /\ req.pc # "idle") =>
    LET userPermissions == ApplyGetPermissions(req.access.getPermissions, req.session)
        required == {req.rule.permissions[i] : i \in 1..Len(req.rule.permissions)}
        held == {userPermissions[i] : i \in 1..Len(userPermissions)}
    IN /\ req.call = "getPermissions"
       /\ req.callSession = req.session
       /\ Evaluated
       /\ req.allowed = (required \subseteq held)
       /\ req.pc = "done" =>
             req.outcome = IF required \subseteq held THEN "next" ELSE "redirect"

\* a session that holds one of two required permissions is redirected
C11_Witness ==
  /\ req.pc = "done"
  /\ NoCheckHook
  /\ req.rule.permissions # Absent
  /\ req.session # NoSession
  /\ LET userPermissions == ApplyGetPermissions(req.access.getPermissions, req.session)
     IN /\ \E i \in 1..Len(req.rule.permissions) :
              Includes(userPermissions, req.rule.permissions[i])
        /\ \E i \in 1..Len(req.rule.permissions) :
              ~Includes(userPermissions, req.rule.permissions[i])
  /\ req.outcome = "redirect"

\* C13: a decision keeps the rule, the access hooks and the loginPath it read
\* from the configuration that was current when it started, also when
\* setConfig replaces the configuration while the decision is suspended on
\* its check hook or allow predicate: the verdict is that of the hook it
\* called and a redirect goes where the rule and loginPath it started with say.
C13_DecisionKeepsSnapshot ==
  [][/\ (req.pc = "idle" /\ req'.pc # "idle") =>
          /\ req'.protect = config.protect
          /\ req'.loginPath = config.loginPath
          /\ req'.rule # NoRule =>
                /\ req'.rule = config.protect[req'.ruleIdx]
                /\ req'.access = config.access
     /\ (req.pc # "idle" /\ req'.pc # "idle") =>
          /\ req'.protect = req.protect
          /\ req'.loginPath = req.loginPath
          /\ req'.access = req.access
          /\ req'.rule = req.rule
          /\ req'.call = req.call
          /\ (req.pc = "pending" /\ req'.pc = "resolved" /\ ~req.ret.threw) =>
                req'.allowed = req.ret.value
          /\ req'.outcome = "redirect" =>
                req'.location = redirectTarget(req.rule, req.loginPath)]_vars

\* a decision that was suspended on a promise ends in a redirect to the
\* loginPath it started with while the store holds another configuration
C13_Witness ==
  /\ req.pc = "done"
  /\ req.call \in {"check", "allow"}
  /\ req.ret.async
  /\ req.outcome = "redirect"
  /\ req.rule.redirectTo = Absent
  /\ req.location = req.loginPath
  /\ config.loginPath # req.loginPath
  /\ config.protect # req.protect
  /\ config.access # req.access

\* ------------------------------------------------------------------------
\* Properties of the Configuration Store
\* ------------------------------------------------------------------------

\* userConfig has a loginPath, a rule pattern or a rule redirectTo that its
\* validator rejects
HasInvalidField(userConfig) ==
  \/ userConfig.loginPath # Absent /\ ~isValidRedirectPath(userConfig.loginPath)
  \/ /\ userConfig.protect # NoProtect
     /\ \E i \in 1..Len(userConfig.protect.rules) :
           \/ ~isValidPattern(userConfig.protect.rules[i].pattern)
           \/ /\ userConfig.protect.rules[i].redirectTo # Absent
              /\ ~isValidRedirectPath(userConfig.protect.rules[i].redirectTo)

\* the error names a field of userConfig that its validator rejects
NamesInvalidField(userConfig, error) ==
  \/ /\ error = "loginPath"
     /\ userConfig.loginPath # Absent /\ ~isValidRedirectPath(userConfig.loginPath)
  \/ /\ error = "pattern"
     /\ userConfig.protect # NoProtect
     /\ \E i \in 1..Len(userConfig.protect.rules) :
           ~isValidPattern(userConfig.protect.rules[i].pattern)
  \/ /\ error = "redirectTo"
     /\ userConfig.protect # NoProtect
     /\ \E i \in 1..Len(userConfig.protect.rules) :
           /\ userConfig.protect.rules[i].redirectTo # Absent
           /\ ~isValidRedirectPath(userConfig.protect.rules[i].redirectTo)

\* C12: a setConfig call whose input has an invalid loginPath, rule pattern
\* or rule redirectTo throws an error naming an offending field and leaves
\* getConfig() as it was before the call.
C12_InvalidInputThrows ==
  [][\A userConfig \in StoreInputs :
        (SetConfig(userConfig) /\ HasInvalidField(userConfig)) =>
          /\ NamesInvalidField(userConfig, thrown')
          /\ config' = config]_vars

\* ------------------------------------------------------------------------
\* Properties of the scoped context
\* ------------------------------------------------------------------------

\* C14 as claimed: every getContextStore() call of a request run inside
\* runWithContext returns that request's context, under every interleaving,
\* and a call outside every scope returns undefined.
C14_ContextIsolated ==
  /\ \A t \in TaskIds : \A o \in tasks[t].seen : o.value = tasks[t].context
  /\ \A o \in outsideSeen : o.value = NoContext

\* C14 as amended: with no custom getContextStore configured, every
\* getContextStore() call of a request run inside runWithContext returns
\* that request's context and a call outside every scope returns undefined;
\* with a custom getContextStore the call returns what that function returns.
C14_ContextIsolatedByDefault ==
  /\ \A t \in TaskIds : \A o \in tasks[t].seen :
        IF o.custom THEN o.value \in HostContexts ELSE o.value = tasks[t].context
  /\ \A o \in outsideSeen :
        IF o.custom THEN o.value \in HostContexts ELSE o.value = NoContext

\* A runs again after an await while B is suspended inside its own,
\* different context; each has seen its own context, and a call outside
\* has seen undefined
C14_Witness ==
  /\ running = "A"
  /\ tasks["A"].captured = tasks["A"].context
  /\ tasks["B"].pc = "suspended"
  /\ tasks["A"].context # tasks["B"].context
  /\ tasks["A"].context # NoContext
  /\ tasks["A"].seen = {[value |-> tasks["A"].context, custom |-> FALSE]}
  /\ tasks["B"].seen = {[value |-> tasks["B"].context, custom |-> FALSE]}
  /\ outsideSeen = {[value |-> NoContext, custom |-> FALSE]}

\* ------------------------------------------------------------------------
\* Properties of the session API and of sessionMiddleware
\* ------------------------------------------------------------------------

\* C15: sessionMiddleware does not throw on a slot value that fails
\* isValidSessionStructure: it propagates {session: null}, calls the
\* downstream handler, and getSession() in the handler returns null.
C15_MalformedSlotDemoted ==
  mwRun.ran =>
    /\ ~mwRun.threw
    /\ mwRun.nextCalls = 1
    /\ ~isValidSessionStructure(mwRun.raw) =>
          /\ mwRun.context = [session |-> VNull]
          /\ mwRun.getSession = VNull

\* the slot held an object that is no valid session, and the handler ran
\* with no session
C15_Witness ==
  /\ mwRun.ran
  /\ mwRun.raw.t = "object"
  /\ ~isValidSessionStructure(mwRun.raw)
  /\ mwRun.context = [session |-> VNull]
  /\ mwRun.nextCalls = 1

\* C16 as claimed: setSession(carrier, s) writes s to the slot iff
\* isValidSessionStructure(s); an invalid s throws and the slot keeps its
\* previous content.
C16_SetSessionWritesIffValid ==
  sessionCall.op = "setSession" =>
    IF isValidSessionStructure(sessionCall.arg)
    THEN /\ sessionCall.threw = "none"
         /\ StoreGet(carrier) = sessionCall.arg
    ELSE /\ sessionCall.threw = "invalid"
         /\ carrier = sessionCall.before

\* C16 as amended: setSession(carrier, s) throws iff isValidSessionStructure(s)
\* fails, and then the slot keeps its previous content; a valid s is written
\* to the slot when the carrier has a session store, and without a store the
\* call returns and writes nothing.
C16_SetSessionWritesIffValidAndStore ==
  sessionCall.op = "setSession" =>
    IF isValidSessionStructure(sessionCall.arg)
    THEN /\ sessionCall.threw = "none"
         /\ sessionCall.before # NoStore => carrier = [slot |-> sessionCall.arg]
         /\ sessionCall.before = NoStore => carrier = NoStore
    ELSE /\ sessionCall.threw = "invalid"
         /\ carrier = sessionCall.before

\* an invalid session was refused and the slot still holds the valid session
\* it held before
C16_Witness ==
  /\ sessionCall.op = "setSession"
  /\ sessionCall.threw = "invalid"
  /\ sessionCall.arg.t = "object"
  /\ sessionCall.before # NoStore
  /\ sessionCall.before.slot \in ValidSessions
  /\ carrier = sessionCall.before

\* C17: updateSession throws and writes nothing when the slot holds no
\* session: never set, removed by clearSession, or no session store.
C17_UpdateNeedsSession ==
  sessionCall.op = "updateSession" =>
    /\ Falsy(StoreGet(sessionCall.before)) =>
          /\ sessionCall.threw = "noSession"
          /\ carrier = sessionCall.before
    /\ sessionCall.prevOp = "clearSession" => sessionCall.threw = "noSession"

\* after clearSession, an update that alone would be a valid session throws
C17_Witness ==
  /\ sessionCall.op = "updateSession"
  /\ sessionCall.prevOp = "clearSession"
  /\ isValidSessionStructure(sessionCall.arg)
  /\ sessionCall.threw = "noSession"
  /\ carrier = [slot |-> Missing]

\* updates laid over currentSession, field by field
Overlay(currentSession, updates) ==
  [field \in SessionFields \cup {"t"} |->
     IF field = "t" THEN "object"
     ELSE IF updates[field] # Missing THEN updates[field] ELSE currentSession[field]]

\* C18: when a session exists, updateSession(carrier, u) stores the overlay
\* of u on the current session iff the overlay passes
\* isValidSessionStructure; otherwise it throws and the slot is unchanged.
C18_UpdateStoresOverlay ==
  (sessionCall.op = "updateSession" /\ ~Falsy(StoreGet(sessionCall.before))) =>
    LET merged == Overlay(sessionCall.before.slot, sessionCall.arg)
    IN IF isValidSessionStructure(merged)
       THEN /\ sessionCall.threw = "none"
            /\ \A field \in SessionFields : carrier.slot[field] = merged[field]
       ELSE /\ sessionCall.threw = "invalid"
            /\ carrier = sessionCall.before

\* an update replaced the role and kept the userId and the other fields
C18_Witness ==
  /\ sessionCall.op = "updateSession"
  /\ sessionCall.threw = "none"
  /\ sessionCall.arg.role.t = "string"
  /\ sessionCall.before.slot.role.t = "string"
  /\ sessionCall.before.slot.role # sessionCall.arg.role
  /\ carrier.slot.role = sessionCall.arg.role
  /\ carrier.slot.userId = sessionCall.before.slot.userId
  /\ carrier.slot.permissions = sessionCall.before.slot.permissions
  /\ carrier.slot.permissions # Missing

\* C19: for every stored valid session, updateSession(carrier, {}) succeeds
\* and leaves the stored session equal to what it was, however often.
C19_EmptyUpdateKeepsSession ==
  (/\ sessionCall.op = "updateSession"
   /\ \A field \in SessionFields : sessionCall.arg[field] = Missing
   /\ isValidSessionStructure(StoreGet(sessionCall.before))) =>
    /\ sessionCall.threw = "none"
    /\ carrier = sessionCall.before

\* updateSession(carrier, {}) called after another updateSession on a valid
\* stored session
C19_Witness ==
  /\ sessionCall.op = "updateSession"
  /\ sessionCall.prevOp = "updateSession"
  /\ \A field \in SessionFields : sessionCall.arg[field] = Missing
  /\ sessionCall.threw = "none"
  /\ carrier # NoStore
  /\ isValidSessionStructure(carrier.slot)
  /\ carrier = sessionCall.before

\* C20: clearSession never throws and leaves the slot absent, whatever it
\* held and also without a session store; an updateSession that follows
\* fails and a sessionMiddleware run that follows propagates no session.
C20_ClearRemovesSlot ==
  /\ sessionCall.op = "clearSession" =>
        /\ sessionCall.threw = "none"
        /\ StoreGet(carrier) = VUndefined
        /\ carrier = IF sessionCall.before = NoStore THEN NoStore ELSE [slot |-> Missing]
  /\ (sessionCall.op = "updateSession" /\ sessionCall.prevOp = "clearSession") =>
        /\ sessionCall.threw = "noSession"
        /\ carrier = sessionCall.before
  /\ (mwRun.ran /\ mwRun.afterOp = "clearSession") =>
        /\ mwRun.raw = VNull
        /\ mwRun.context = [session |-> VNull]

\* clearSession removed an object that was no valid session, and the
\* sessionMiddleware run after a clearSession propagated no session
C20_Witness ==
  /\ sessionCall.op = "clearSession"
  /\ sessionCall.before # NoStore
  /\ sessionCall.before.slot \in InvalidSessions
  /\ carrier = [slot |-> Missing]
  /\ mwRun.ran
  /\ mwRun.afterOp = "clearSession"
  /\ mwRun.context = [session |-> VNull]

\* ------------------------------------------------------------------------
\* Properties of setConfig
\* ------------------------------------------------------------------------

\* C21: after a successful setConfig(c), getConfig() is determined by c
\* alone: a field c omits has its default, what c gives is stored, nothing
\* of the configuration stored before survives, and the rules are c's rules
\* in c's order.
C21_ConfigFromInputAlone ==
  [][\A userConfig \in StoreInputs :
        (SetConfig(userConfig) /\ thrown' = "none") =>
          /\ config'.loginPath = IF userConfig.loginPath = Absent
                                 THEN <<"/", "l", "o", "g", "i", "n">>
                                 ELSE userConfig.loginPath
          /\ config'.protect = IF userConfig.protect = NoProtect
                               THEN <<>> ELSE userConfig.protect.rules
          /\ config'.access.getRole =
                IF userConfig.access = NoAccess \/ userConfig.access.getRole = Undefined
                THEN "defaultGetRole" ELSE userConfig.access.getRole
          /\ config'.access.getPermissions =
                IF userConfig.access = NoAccess \/ userConfig.access.getPermissions = Undefined
                THEN "defaultGetPermissions" ELSE userConfig.access.getPermissions
          /\ config'.access.check =
                IF userConfig.access = NoAccess THEN Undefined ELSE userConfig.access.check
          /\ config'.runWithContext = userConfig.runWithContext
          /\ config'.getContextStore = userConfig.getContextStore
          /\ config'.setContextStore = userConfig.setContextStore]_vars

\* a configuration that gave two rules and nothing else is stored: the rules
\* in their order, every other field at its default
C21_Witness ==
  /\ thrown = "none"
  /\ Len(config.protect) = 2
  /\ config.protect[1].permission = "read"
  /\ config.protect[2].role = "admin"
  /\ config.loginPath = DEFAULT_CONFIG.loginPath
  /\ config.access = DEFAULT_CONFIG.access
  /\ config.getContextStore = Undefined

\* exactly one of getContextStore and setContextStore is supplied
OneOfStorePair(userConfig) ==
  (userConfig.getContextStore # Undefined) # (userConfig.setContextStore # Undefined)

Discriminants(rule) ==
  {d \in {"role", "permission", "allow"} : rule[d] # Undefined}
  \cup {d \in {"roles", "permissions"} : rule[d] # Absent}

\* C25 as claimed: every rule held in the Configuration Store carries
\* exactly one of role, roles, permission, permissions, allow.
C25_OneDiscriminantPerRule ==
  \A i \in 1..Len(config.protect) : Cardinality(Discriminants(config.protect[i])) = 1

\* C25 as amended: setConfig does not inspect discriminants; each stored
\* rule carries exactly the discriminants the host gave it, so rules given
\* with exactly one each are stored with exactly one each, and a rule given
\* with none or with several is stored as given.
C25_DiscriminantsAsGiven ==
  [][\A userConfig \in StoreInputs :
        SetConfig(userConfig) =>
          /\ (~HasInvalidField(userConfig) /\ ~OneOfStorePair(userConfig)) =>
                thrown' = "none"
          /\ (thrown' = "none" /\ userConfig.protect # NoProtect) =>
                /\ Len(config'.protect) = Len(userConfig.protect.rules)
                /\ \A i \in 1..Len(userConfig.protect.rules) :
                      Discriminants(config'.protect[i]) =
                        Discriminants(userConfig.protect.rules[i])]_vars

\* the store holds a rule with role and roles, and one with no discriminant
\* was stored before or after it
C25_Witness ==
  /\ thrown = "none"
  /\ Len(config.protect) = 2
  /\ Discriminants(config.protect[1]) = {"role"}
  /\ Discriminants(config.protect[2]) = {"role", "roles"}

\* ------------------------------------------------------------------------
\* Properties of sessionMiddleware with a custom context store
\* ------------------------------------------------------------------------

\* C24: with getContextStore and setContextStore configured and no custom
\* runWithContext, sessionMiddleware calls setContextStore with
\* {session: <the validated session>} before the downstream handler runs,
\* and getContextStore() in the handler returns this request's session.
C24_SetterCalledBeforeHandler ==
  (/\ mwRun.ran
   /\ mwRun.hooks.getContextStore # Undefined
   /\ mwRun.hooks.setContextStore # Undefined
   /\ mwRun.hooks.runWithContext = Undefined) =>
    /\ mwRun.setCalls = << [session |-> validatedSession(mwRun.raw)] >>
    /\ mwRun.store = [session |-> validatedSession(mwRun.raw)]

\* ------------------------------------------------------------------------
\* Properties of matchesPattern and of the validators
\* ------------------------------------------------------------------------

\* str.startsWith(prefix)
StartsWith(str, prefix) ==
  Len(str) >= Len(prefix) /\ SubSeq(str, 1, Len(prefix)) = prefix

\* w is one or more non-empty segments joined by "/"
Segments(w) ==
  /\ Len(w) >= 1
  /\ w[1] # "/"
  /\ w[Len(w)] # "/"
  /\ \A k \in 1..(Len(w) - 1) : ~(w[k] = "/" /\ w[k + 1] = "/")

\* C26: for every base path, the pattern base/** matches base itself and
\* every path below it at any depth, and no other path: none outside base,
\* none that contains base further right, no sibling that shares the prefix.
C26_DoubleStarSubtree ==
  \A base \in ProbeBases :
     (/\ probe.fn = "matchesPattern"
      /\ probe.done
      /\ probe.pattern = base \o <<"/", "*", "*">>) =>
       probe.result = (probe.path = base \/ StartsWith(probe.path, base \o <<"/">>))

\* "/a/**" matched "/a/b/a", two levels below "/a"
C26_Witness ==
  /\ probe.fn = "matchesPattern"
  /\ probe.done
  /\ probe.pattern = <<"/", "a", "/", "*", "*">>
  /\ probe.path = <<"/", "a", "/", "b", "/", "a">>
  /\ probe.result

\* C27: the pattern base/* matches exactly the paths that continue base/
\* with one or more non-empty segments (not base, not base/), and in
\* "/*/a/*" each wildcard takes one or more non-empty segments.
C27_SingleStarSegments ==
  /\ \A base \in ProbeBases :
        (/\ probe.fn = "matchesPattern"
         /\ probe.done
         /\ probe.pattern = base \o <<"/", "*">>) =>
          probe.result =
            (/\ StartsWith(probe.path, base \o <<"/">>)
             /\ Segments(SubSeq(probe.path, Len(base) + 2, Len(probe.path))))
  /\ (/\ probe.fn = "matchesPattern"
      /\ probe.done
      /\ probe.pattern = TwoWildcards) =>
       probe.result =
         (\E i \in 2..(Len(probe.path) - 3) :
             /\ Segments(SubSeq(probe.path, 2, i))
             /\ SubSeq(probe.path, i + 1, i + 3) = <<"/", "a", "/">>
             /\ Segments(SubSeq(probe.path, i + 4, Len(probe.path))))

\* "/a/*" matched "/a/b/a": the wildcard took two segments
C27_Witness ==
  /\ probe.fn = "matchesPattern"
  /\ probe.done
  /\ probe.pattern = <<"/", "a", "/", "*">>
  /\ probe.path = <<"/", "a", "/", "b", "/", "a">>
  /\ probe.result

\* pattern has four or more "*" in a row somewhere
HasRunOfFour(pattern) ==
  \E i \in 1..(Len(pattern) - 3) : \A k \in i..(i + 3) : pattern[k] = "*"

\* C28: "/" followed by n asterisks is valid for n in 1..3 and invalid for
\* n >= 4, and every pattern with four or more asterisks in a row anywhere
\* is invalid.
C28_StarRunsBounded ==
  (probe.fn = "isValidPattern" /\ probe.done /\ probe.pattern # Absent) =>
    /\ HasRunOfFour(probe.pattern) => ~probe.result
    /\ \A n \in 1..20 :
          probe.pattern = <<"/">> \o Repeat(<<"*">>, n) => probe.result = (n <= 3)

\* "/****" was found invalid
C28_Witness ==
  /\ probe.fn = "isValidPattern"
  /\ probe.done
  /\ probe.pattern = <<"/", "*", "*", "*", "*">>
  /\ ~probe.result

\* the number of segments of pattern that hold a "*"
WildcardSegments(pattern) ==
  Cardinality({i \in 1..Len(pattern) :
                 /\ pattern[i] = "/" \/ i = 1
                 /\ \E k \in i..Len(pattern) :
                       /\ pattern[k] = "*"
                       /\ \A m \in (i + 1)..k : pattern[m] # "/"})

\* C29: isValidPattern rejects every pattern with more than 20 segments
\* that hold a wildcard.
C29_WildcardSegmentsCapped ==
  (probe.fn = "isValidPattern" /\ probe.done /\ probe.pattern # Absent) =>
    (WildcardSegments(probe.pattern) > 20 => ~probe.result)

\* C30: isValidRedirectPath is false for the empty string, for every string
\* that does not start with "/", for every string that starts with "//",
\* for "http://x" and "javascript:x" and for "/" followed by 500
\* characters; it is true for "/x" and for "/" followed by 499 characters.
C30_SiteRelativeOnly ==
  (probe.fn = "isValidRedirectPath" /\ probe.done /\ probe.path # Absent) =>
    /\ Len(probe.path) = 0 => ~probe.result
    /\ ~StartsWith(probe.path, <<"/">>) => ~probe.result
    /\ StartsWith(probe.path, <<"/", "/">>) => ~probe.result
    /\ probe.path \in {HttpUrl, JavascriptUrl} => ~probe.result
    /\ probe.path = <<"/", "x">> => probe.result
    /\ probe.path = <<"/">> \o Repeat(<<"a">>, 499) => probe.result
    /\ probe.path = <<"/">> \o Repeat(<<"a">>, 500) => ~probe.result

\* "//x" was refused
C30_Witness ==
  /\ probe.fn = "isValidRedirectPath"
  /\ probe.done
  /\ probe.path = <<"/", "/", "x">>
  /\ ~probe.result

\* ------------------------------------------------------------------------
\* Properties of isValidSessionStructure
\* ------------------------------------------------------------------------

\* a call of isValidSessionStructure has returned or thrown
SessionProbed == probe.fn = "isValidSessionStructure" /\ probe.done

\* the number of items of array, and the length of its longest string item
ItemCount(array) == RunsLength(array.runs)
LongestItem(array) ==
  LET lens == {array.runs[i].item.len : i \in {k \in 1..Len(array.runs) :
                  array.runs[k].count > 0 /\ array.runs[k].item.t = "string"}}
  IN IF lens = {} THEN 0 ELSE CHOOSE n \in lens : \A m \in lens : m <= n

\* C31: isValidSessionStructure never throws, whatever it is given, and its
\* limits are inclusive: a userId of 255 characters, 100 roles and 500
\* permissions are accepted; a userId of 256, 101 roles, 501 permissions, a
\* role item of 101 and a permission item of 201 characters are rejected.
C31_LimitsAtBoundary ==
  SessionProbed =>
    /\ ~probe.threw
    /\ probe.input.t # "object" => ~probe.result
    /\ probe.input.t = "object" =>
          /\ (probe.input.userId.t = "string" /\ probe.input.userId.len >= 256) =>
                ~probe.result
          /\ (probe.input.roles.t = "array" /\ ItemCount(probe.input.roles) >= 101) =>
                ~probe.result
          /\ (probe.input.permissions.t = "array"
                /\ ItemCount(probe.input.permissions) >= 501) => ~probe.result
          /\ (probe.input.roles.t = "array" /\ LongestItem(probe.input.roles) >= 101) =>
                ~probe.result
          /\ (probe.input.permissions.t = "array"
                /\ LongestItem(probe.input.permissions) >= 201) => ~probe.result
    /\ probe.input \in
          { VObject(VString("a", 255), Missing, Missing, Missing, Missing, Missing),
            ProbeSession(Missing, Missing, VArray(<<Run(VString("role", 4), 100)>>), Missing),
            ProbeSession(Missing, Missing, Missing, VArray(<<Run(VString("perm", 4), 500)>>)),
            ProbeSession(Missing, Missing, VArray(<<Run(VString("a", 100), 1)>>), Missing),
            ProbeSession(Missing, Missing, Missing, VArray(<<Run(VString("a", 200), 1)>>)) }
          => probe.result

\* a session with 500 permissions was accepted
C31_Witness ==
  /\ SessionProbed
  /\ probe.input.t = "object"
  /\ probe.input.permissions.t = "array"
  /\ ItemCount(probe.input.permissions) = 500
  /\ probe.result
  /\ ~probe.threw

\* value is an array of which every item is a string
ArrayOfStrings(value) ==
  /\ value.t = "array"
  /\ \A i \in 1..Len(value.runs) :
        value.runs[i].count > 0 => value.runs[i].item.t = "string"

\* the property is there and its value is not undefined
Present(value) == value.t \notin {"missing", "undefined"}

\* C32 as claimed: a present email or role that is no string, or a present
\* roles or permissions that is no array of strings, makes the session
\* invalid, for every such value, null included.
C32_WrongTypeRejected ==
  (SessionProbed /\ probe.input.t = "object") =>
    /\ (Present(probe.input.email) /\ probe.input.email.t # "string") => ~probe.result
    /\ (Present(probe.input.role) /\ probe.input.role.t # "string") => ~probe.result
    /\ (Present(probe.input.roles) /\ ~ArrayOfStrings(probe.input.roles)) => ~probe.result
    /\ (Present(probe.input.permissions) /\ ~ArrayOfStrings(probe.input.permissions)) =>
          ~probe.result

\* C32 as amended: the same for every value but null in role, roles and
\* permissions: a null role, roles or permissions counts as absent and does
\* not make the session invalid, while a null email does.
C32_WrongTypeRejectedButNull ==
  (SessionProbed /\ probe.input.t = "object") =>
    /\ (Present(probe.input.email) /\ probe.input.email.t # "string") => ~probe.result
    /\ (Present(probe.input.role) /\ probe.input.role.t \notin {"string", "null"}) =>
          ~probe.result
    /\ (/\ Present(probe.input.roles)
        /\ probe.input.roles.t # "null"
        /\ ~ArrayOfStrings(probe.input.roles)) => ~probe.result
    /\ (/\ Present(probe.input.permissions)
        /\ probe.input.permissions.t # "null"
        /\ ~ArrayOfStrings(probe.input.permissions)) => ~probe.result
    /\ (/\ probe.input.userId = VString("u", 1)
        /\ probe.input.email = Missing
        /\ probe.input.role \in {Missing, VNull}
        /\ probe.input.roles \in {Missing, VNull}
        /\ probe.input.permissions \in {Missing, VNull}) => probe.result

\* a session whose roles hold a number among strings was rejected
C32_Witness ==
  /\ SessionProbed
  /\ probe.input.t = "object"
  /\ probe.input.roles.t = "array"
  /\ ~ArrayOfStrings(probe.input.roles)
  /\ probe.input.userId = VString("u", 1)
  /\ ~probe.result

\* ------------------------------------------------------------------------
\* Properties of the guard under every accepted configuration
\* ------------------------------------------------------------------------

\* C33: with no check hook and a session present, a matched rule that has
\* none of allow, role, roles, permission, permissions is admitted: the
\* verdict of checkRule is true and the guard calls the downstream handler.
C33_DefaultAdmit ==
  (/\ req.rule # NoRule
   /\ req.access.check = Undefined
   /\ Discriminants(req.rule) = {}
   /\ req.session # NoSession) =>
    /\ req.pc \in {"resolved", "done"}
    /\ req.call = "none"
    /\ req.allowed
    /\ req.pc = "done" => (req.outcome = "next" /\ req.nextCalls = 1)

\* a request with a session was admitted by a rule without a variant
C33_Witness ==
  /\ req.pc = "done"
  /\ req.rule = BareRule
  /\ req.access.check = Undefined
  /\ req.session \in Sessions
  /\ req.outcome = "next"

\* ------------------------------------------------------------------------
\* Progress of the guard
\* ------------------------------------------------------------------------

\* the decision of r is under way
Undecided(r) == r.pc \in {"pending", "resolved"}

\* r has not acted: no downstream handler, no redirect, nothing returned
NotActed(r) ==
  /\ r.outcome = "none"
  /\ r.nextCalls = 0
  /\ r.location = Absent
  /\ r.result = Undefined

\* r ended in exactly one of Admit and Redirect
AdmitOrRedirect(r) ==
  /\ r.pc = "done"
  /\ \/ r.outcome = "next" /\ r.nextCalls = 1 /\ r.location = Absent
     \/ r.outcome = "redirect" /\ r.nextCalls = 0 /\ r.location # Absent

\* the predicate r called threw or its promise rejected
PredicateFailed(r) == r.ret # NoReturn /\ r.ret.threw

\* the promise of the predicate of the first request does not stay pending
\* for ever
PredicateSettles == []<>(req.pc # "pending")

\* C34 as claimed: under fairness, every decision whose predicate
\* eventually settles ends in exactly one of Admit and Redirect; while the
\* predicate has not settled the request has neither called the downstream
\* handler nor redirected; and the decision of another request ends while
\* that of the first is suspended.
C34_SettledEndsDecided ==
  /\ [](req.pc = "pending" => NotActed(req))
  /\ [](req.pc = "done" => AdmitOrRedirect(req))
  /\ PredicateSettles => (Undecided(req) ~> AdmitOrRedirect(req))
  /\ Undecided(peer) ~> peer.pc = "done"

\* C34 as amended: the same for every decision whose predicate settles
\* with a value; a decision whose predicate throws or rejects ends as well,
\* with the failure and with neither Admit nor Redirect.
C34_FulfilledEndsDecided ==
  /\ [](req.pc = "pending" => NotActed(req))
  /\ [](req.pc = "done" =>
          IF PredicateFailed(req)
          THEN req.outcome = "error" /\ req.nextCalls = 0 /\ req.location = Absent
          ELSE AdmitOrRedirect(req))
  /\ PredicateSettles =>
        /\ (Undecided(req) /\ ~PredicateFailed(req)) ~> AdmitOrRedirect(req)
        /\ Undecided(req) ~> req.pc = "done"
  /\ Undecided(peer) ~> peer.pc = "done"

\* the peer's decision has ended while the first request is suspended on a
\* promise that has not settled
C34_Witness ==
  /\ req.pc = "pending"
  /\ ~req.settled
  /\ peer.pc = "done"
  /\ peer.ret # NoReturn
  /\ peer.ret.async
  /\ peer.outcome = "redirect"

\* ------------------------------------------------------------------------
\* Where the guard redirects to, and what the store holds
\* ------------------------------------------------------------------------

\* C35: every redirect the guard issues, under every configuration that
\* setConfig has accepted, goes to a location that satisfies
\* isValidRedirectPath: a non-empty site-relative path that starts with
\* exactly one "/".
C35_RedirectTargetValid ==
  req.outcome = "redirect" =>
    /\ isValidRedirectPath(req.location)
    /\ Len(req.location) > 0
    /\ req.location[1] = "/"
    /\ Len(req.location) >= 2 => req.location[2] # "/"

\* C36: in every state of the Configuration Store, after any sequence of
\* setConfig calls that returned or threw, starting from the defaults, the
\* stored loginPath satisfies isValidRedirectPath and the pattern of every
\* stored rule satisfies isValidPattern.
C36_StoreHoldsValidated ==
  /\ isValidRedirectPath(config.loginPath)
  /\ \A i \in 1..Len(config.protect) : isValidPattern(config.protect[i].pattern)

\* the store holds a loginPath and rules of the host's after a call that
\* threw for its loginPath
C36_Witness ==
  /\ thrown = "loginPath"
  /\ config.loginPath = <<"/", "s">>
  /\ Len(config.protect) = 2

\* ------------------------------------------------------------------------
\* What the session API leaves in the slot and in the request
\* ------------------------------------------------------------------------

\* C37: starting from an empty slot, after any sequence of setSession,
\* updateSession and clearSession calls, those that throw included, the
\* '__session__' slot is absent or holds a value that satisfies
\* isValidSessionStructure.
C37_SlotAbsentOrValid ==
  \/ carrier = NoStore
  \/ carrier.slot = Missing
  \/ isValidSessionStructure(carrier.slot)

\* an updateSession call threw for the merged session and the slot holds
\* the session an earlier updateSession call wrote
C37_Witness ==
  /\ sessionCall.op = "updateSession"
  /\ sessionCall.threw = "invalid"
  /\ carrier # NoStore
  /\ carrier.slot # Missing
  /\ carrier.slot \notin ValidSessions
  /\ isValidSessionStructure(carrier.slot)

\* C38: when the check hook or the allow predicate of the matched rule
\* throws, or its promise rejects, the guard neither calls the downstream
\* handler nor redirects: its caller gets the failure, and the request is
\* not admitted.
C38_FailurePropagates ==
  (req.pc # "idle" /\ PredicateFailed(req)) =>
    /\ req.call \in {"check", "allow"}
    /\ ~req.allowed
    /\ req.nextCalls = 0
    /\ req.location = Absent
    /\ req.outcome \in {"none", "error"}
    /\ req.pc = "done" => (req.outcome = "error" /\ req.result = "throws")

\* the promise of an allow predicate rejected and the guard has thrown
C38_Witness ==
  /\ req.pc = "done"
  /\ req.call = "allow"
  /\ PredicateFailed(req)
  /\ req.ret.async
  /\ req.outcome = "error"
  /\ req.session \in Sessions

\* C39: a call of setSession, updateSession or clearSession made after
\* sessionMiddleware ran changes the carrier's slot only: the context the
\* request runs in, what getSession() returns and the store a guard
\* decision reads stay what the run captured, and the configuration is not
\* touched.
C39_CallsLeaveContext ==
  [][\A op \in {"setSession", "updateSession", "clearSession"} :
        (mwRun.ran /\ sessionCall'.op = op /\ (sessionCall' # sessionCall \/ carrier' # carrier)) =>
          /\ mwRun'.ran
          /\ mwRun'.context = mwRun.context
          /\ mwRun'.getSession = mwRun.getSession
          /\ mwRun'.store = mwRun.store
          /\ mwRun'.raw = mwRun.raw
          /\ config' = config]_vars

\* sessionMiddleware ran with a valid session in the slot, then clearSession
\* emptied the slot, and getSession() still reports the session
C39_Witness ==
  /\ mwRun.ran
  /\ mwRun.afterOp = "none"
  /\ sessionCall.op = "clearSession"
  /\ sessionCall.prevOp = "none"
  /\ sessionCall.before # NoStore
  /\ sessionCall.before.slot \in ValidSessions
  /\ carrier.slot = Missing
  /\ mwRun.getSession = sessionCall.before.slot
  /\ mwRun.context = [session |-> sessionCall.before.slot]

=============================================================================
